---- MODULE Spec2Model ----
(***************************************************************************)
(* Approval-workflow coordination layer of AZSwiftCheck:                   *)
(*   - WorkflowEngine (workflow_engine.py): create_approval_workflow,      *)
(*     submit_approval, get_next_stage, publish_template, run by           *)
(*     concurrent requests against the Cosmos containers                   *)
(*     workflow_approvals and published_templates;                         *)
(*   - RateLimiter (rate_limiter.py): is_rate_limited, run by concurrent   *)
(*     requests against one Redis counter per (client, endpoint);          *)
(*   - AzureRedisCacheManager (azure_cache_utils.py): cache_response,      *)
(*     get_cached_response, clear_cache against the Redis keyspace.        *)
(* Every call to an external store is one atomic step; the local           *)
(* computation of a handler between two store calls belongs to the step    *)
(* of the store call that precedes it.                                     *)
(***************************************************************************)
EXTENDS Integers, Sequences, FiniteSets, TLC

(* ------------------------------ bounds --------------------------------- *)

\* number of submit_approval requests issued in a behaviour
MaxCalls == 3

\* number of requests that run submit_approval at the same time
NumProcs == 2

\* number of is_rate_limited requests issued in a behaviour
MaxThrottleCalls == 7

\* number of requests that run is_rate_limited at the same time
NumWorkers == 2

\* number of cache_response calls issued in a behaviour
MaxCacheOps == 3

\* number of is_rate_limited requests issued next to the cache calls
MaxSharedCalls == 2

\* number of is_rate_limited requests issued over several endpoints
MaxRouteCalls == 3

\* number of days that pass while a workflow waits for its approvers
MaxDays == 2

(* ------------------------- enums and inputs ---------------------------- *)

None == "none"

\* ApprovalStatus
PENDING == "pending"
APPROVED == "approved"
REJECTED == "rejected"
EXPIRED == "expired"

\* WorkflowStage
QC_REVIEW == "qc_review"
MANAGER_APPROVAL == "manager_approval"
FINAL_APPROVAL == "final_approval"
PUBLISHED == "published"

WorkflowIds == {"w1"}
RequestIds == {"r1"}
TenantIds == {"default"}
ApproverIds == {"u1", "u2"}
ApproverRoles == {"QC Supervisor"}
CommentTexts == {"", "missing spec"}

\* the /workflow/approve route lets only these two decisions through
Decisions == {APPROVED, REJECTED}

Procs == 1..NumProcs

(* ------------------------------ state ---------------------------------- *)

VARIABLES
    store,       \* container workflow_approvals: workflow id -> document
    published,   \* container published_templates: request ids with a record
    pubCalls,    \* request id -> number of publish_template invocations
    events,      \* events handed to the event grid
    clock,       \* datetime.now()
    writes,      \* workflow id -> number of replace_item calls applied
    lastDecision,\* workflow id -> decision of the latest replace_item applied
    calls,       \* number of submit_approval requests issued
    pc,          \* request -> position inside submit_approval
    args,        \* request -> arguments of the call
    snap,        \* request -> the document as read_item returned it
    readVer,     \* request -> writes[workflow] when read_item returned
    wf,          \* request -> the local workflow dict
    didPublish,  \* request -> publish_template was invoked by this request
    result,      \* request -> outcome reported to the caller
    createResult,\* outcome of the latest create_approval_workflow
    counter,     \* redis: throttle key -> count, Nil when the key is absent
    ttlSet,      \* redis: throttle key -> the key carries an expiry
    admitted,    \* throttle key -> requests let through (setex or incr done)
                 \* since the key last expired
    rlCalls,     \* number of is_rate_limited requests issued
    rlPc,        \* worker -> position inside is_rate_limited
    rlKey,       \* worker -> redis_key of the running call
    rlCur,       \* worker -> current_requests as returned by redis get
    rlRet,       \* worker -> last value returned by is_rate_limited
    rlRemaining, \* worker -> g.rate_limit_info["remaining"]
    ttl,         \* redis: throttle key -> seconds to live (-2 no key, -1 no expiry)
    rlReset,     \* worker -> g.rate_limit_info["reset"] minus the time of the call
    handlerRuns, \* worker -> executions of the wrapped handler for its request
    response,    \* worker -> what the rate_limit wrapper returned last
    rlFault,     \* worker -> its latest is_rate_limited call caught an exception
    pendingQuery,  \* arguments of the latest get_pending_approvals
    pendingResult, \* workflow ids returned by the latest get_pending_approvals
    cache,       \* redis: response-cache key -> stored text (keys that exist)
    cacheLog,    \* response-cache key -> payload of the latest cache_response
                 \* not yet expired or cleared
    cacheBy,     \* response-cache key -> inputs of the latest cache_response
                 \* not yet expired or cleared
    cacheAsked,  \* inputs of the latest get_cached_response
    cacheRet,    \* value returned by the latest get_cached_response
    cacheOps,    \* number of cache_response calls issued
    cacheFault,  \* the latest cache_response or get_cached_response met a
                 \* redis error
    cacheRaised, \* an exception of a cache call has reached its caller
    cacheStats,  \* total_entries of the latest get_cache_stats, Nil before
    clearRun     \* clear_cache: its position, the keys it found, and the
                 \* number of keys the latest finished call reported as cleared

wfVars == <<store, published, pubCalls, events, clock, writes, lastDecision,
            calls,
            pc, args, snap, readVer, wf, didPublish, result, createResult>>
rlVars == <<counter, ttlSet, admitted, rlCalls, rlPc, rlKey, rlCur, rlRet,
            rlRemaining, ttl, rlReset, handlerRuns, response, rlFault>>
qVars == <<pendingQuery, pendingResult>>
cacheVars == <<cache, cacheLog, cacheBy, cacheAsked, cacheRet, cacheOps, cacheFault,
               cacheRaised, cacheStats, clearRun>>
vars == <<store, published, pubCalls, events, clock, writes, lastDecision,
            calls,
          pc, args, snap, readVer, wf, didPublish, result, createResult,
          counter, ttlSet, admitted, rlCalls, rlPc, rlKey, rlCur, rlRet,
          rlRemaining, ttl, rlReset, handlerRuns, response, rlFault,
          pendingQuery, pendingResult,
          cache, cacheLog, cacheBy, cacheAsked, cacheRet, cacheOps, cacheFault,
          cacheRaised, cacheStats, clearRun>>

(* ------------------------- workflow documents -------------------------- *)

\* what read_item finds when no document has the id
NoDoc == [status |-> "absent"]

NoArgs == [workflow_id |-> None, approver_id |-> None, approver_role |-> None,
           decision |-> None, comments |-> None]

StageRecord(stage, role, required, dueHours) ==
    [stage |-> stage, approver_role |-> role, approver_id |-> None,
     status |-> PENDING, required |-> required, due_hours |-> dueHours,
     comments |-> None, approved_at |-> None]

\* faulty variant: the final stage is created as a required one
NewChain_FinalRequired ==
    << StageRecord(QC_REVIEW, "QC Supervisor", TRUE, 24),
       StageRecord(MANAGER_APPROVAL, "QC Manager", TRUE, 48),
       StageRecord(FINAL_APPROVAL, "Department Head", TRUE, 72) >>

NewChain ==
    << StageRecord(QC_REVIEW, "QC Supervisor", TRUE, 24),
       StageRecord(MANAGER_APPROVAL, "QC Manager", TRUE, 48),
       StageRecord(FINAL_APPROVAL, "Department Head", FALSE, 72) >>

NewWorkflow(request_id, tenant_id, now) ==
    [request_id |-> request_id,
     tenant_id |-> tenant_id,
     current_stage |-> QC_REVIEW,
     status |-> PENDING,
     approval_chain |-> NewChain,
     rejected_by |-> None,
     rejection_reason |-> None,
     created_at |-> now,
     updated_at |-> now]

\* stage_order.index(current_stage); 0 stands for ValueError
StageIndex(current_stage, approval_chain) ==
    LET hits == {i \in 1..Len(approval_chain) :
                    approval_chain[i].stage = current_stage}
    IN IF hits = {} THEN 0
       ELSE CHOOSE i \in hits : \A j \in hits : i <= j

RECURSIVE ScanRequired(_, _)
\* for i in range(i, len(approval_chain)): first required stage
ScanRequired(i, approval_chain) ==
    IF i > Len(approval_chain) THEN None
    ELSE IF approval_chain[i].required THEN approval_chain[i].stage
    ELSE ScanRequired(i + 1, approval_chain)

\* faulty variant: the scan starts at current_index instead of current_index + 1
get_next_stage_FromCurrent(current_stage, approval_chain) ==
    LET current_index == StageIndex(current_stage, approval_chain)
    IN IF current_index = 0 THEN None
       ELSE ScanRequired(current_index, approval_chain)

\* faulty variant: the scan takes the next stage without testing "required"
get_next_stage_AnyStage(current_stage, approval_chain) ==
    LET current_index == StageIndex(current_stage, approval_chain)
    IN IF current_index = 0 \/ current_index + 1 > Len(approval_chain)
       THEN None
       ELSE approval_chain[current_index + 1].stage

\* faulty variant: the scan starts one position too far
get_next_stage_SkipOne(current_stage, approval_chain) ==
    LET current_index == StageIndex(current_stage, approval_chain)
    IN IF current_index = 0 THEN None
       ELSE ScanRequired(current_index + 2, approval_chain)

\* faulty variant: no later stage is looked for, every approval is the last
get_next_stage_NoScan(current_stage, approval_chain) ==
    None

get_next_stage(current_stage, approval_chain) ==
    LET current_index == StageIndex(current_stage, approval_chain)
    IN IF current_index = 0 THEN None
       ELSE ScanRequired(current_index + 1, approval_chain)

\* faulty variant: the decided record is appended instead of updated in place
UpdateCurrentStage_Appends(approval_chain, current_stage, approver_id, decision, comments, now) ==
    LET idx == StageIndex(current_stage, approval_chain)
    IN IF idx = 0 THEN approval_chain
       ELSE Append(approval_chain,
                   [approval_chain[idx] EXCEPT !.approver_id = approver_id,
                                               !.status = decision,
                                               !.comments = comments,
                                               !.approved_at = now])

\* the loop "for stage in approval_chain: if stage matches: ...; break"
UpdateCurrentStage(approval_chain, current_stage, approver_id, decision, comments, now) ==
    LET idx == StageIndex(current_stage, approval_chain)
    IN [i \in 1..Len(approval_chain) |->
          IF i = idx
          THEN [approval_chain[i] EXCEPT !.approver_id = approver_id,
                                         !.status = decision,
                                         !.comments = comments,
                                         !.approved_at = now]
          ELSE approval_chain[i]]

\* faulty variant: the rejected branch records who rejected but leaves the status
ApplyDecision_RejectKeepsStatus(workflow, approver_id, decision, comments, now) ==
    LET chain == UpdateCurrentStage(workflow.approval_chain,
                                    workflow.current_stage, approver_id,
                                    decision, comments, now)
        staged == [workflow EXCEPT !.approval_chain = chain]
        next_stage == get_next_stage(workflow.current_stage, chain)
    IN IF decision = APPROVED
       THEN IF next_stage # None
            THEN [doc |-> [staged EXCEPT !.current_stage = next_stage],
                  publish |-> FALSE]
            ELSE [doc |-> [staged EXCEPT !.status = APPROVED,
                                         !.current_stage = PUBLISHED],
                  publish |-> TRUE]
       ELSE [doc |-> [staged EXCEPT !.rejected_by = approver_id,
                                    !.rejection_reason = comments],
             publish |-> FALSE]

\* faulty variant: the rejected branch does not record the reason
ApplyDecision_ReasonDropped(workflow, approver_id, decision, comments, now) ==
    LET chain == UpdateCurrentStage(workflow.approval_chain,
                                    workflow.current_stage, approver_id,
                                    decision, comments, now)
        staged == [workflow EXCEPT !.approval_chain = chain]
        next_stage == get_next_stage(workflow.current_stage, chain)
    IN IF decision = APPROVED
       THEN IF next_stage # None
            THEN [doc |-> [staged EXCEPT !.current_stage = next_stage],
                  publish |-> FALSE]
            ELSE [doc |-> [staged EXCEPT !.status = APPROVED,
                                         !.current_stage = PUBLISHED],
                  publish |-> TRUE]
       ELSE [doc |-> [staged EXCEPT !.status = REJECTED,
                                    !.rejected_by = approver_id],
             publish |-> FALSE]

\* faulty variant: a decision that arrives after the due date of the stage
\* expires the stage and the workflow instead of recording the decision
ApplyDecision_Expires(workflow, approver_id, decision, comments, now) ==
    LET idx == StageIndex(workflow.current_stage, workflow.approval_chain)
        overdue == /\ idx > 0
                   /\ now > workflow.created_at
                              + workflow.approval_chain[idx].due_hours
        chain == UpdateCurrentStage(workflow.approval_chain,
                                    workflow.current_stage, approver_id,
                                    IF overdue THEN EXPIRED ELSE decision,
                                    comments, now)
        staged == [workflow EXCEPT !.approval_chain = chain]
        next_stage == get_next_stage(workflow.current_stage, chain)
    IN IF overdue
       THEN [doc |-> [staged EXCEPT !.status = EXPIRED], publish |-> FALSE]
       ELSE IF decision = APPROVED
       THEN IF next_stage # None
            THEN [doc |-> [staged EXCEPT !.current_stage = next_stage],
                  publish |-> FALSE]
            ELSE [doc |-> [staged EXCEPT !.status = APPROVED,
                                         !.current_stage = PUBLISHED],
                  publish |-> TRUE]
       ELSE [doc |-> [staged EXCEPT !.status = REJECTED,
                                    !.rejected_by = approver_id,
                                    !.rejection_reason = comments],
             publish |-> FALSE]

\* submit_approval from the returned read_item up to publish_template:
\* the local workflow dict and whether the publish branch is taken
ApplyDecision(workflow, approver_id, decision, comments, now) ==
    LET chain == UpdateCurrentStage(workflow.approval_chain,
                                    workflow.current_stage, approver_id,
                                    decision, comments, now)
        staged == [workflow EXCEPT !.approval_chain = chain]
        next_stage == get_next_stage(workflow.current_stage, chain)
    IN IF decision = APPROVED
       THEN IF next_stage # None
            THEN [doc |-> [staged EXCEPT !.current_stage = next_stage],
                  publish |-> FALSE]
            ELSE [doc |-> [staged EXCEPT !.status = APPROVED,
                                         !.current_stage = PUBLISHED],
                  publish |-> TRUE]
       ELSE IF decision = REJECTED
       THEN [doc |-> [staged EXCEPT !.status = REJECTED,
                                    !.rejected_by = approver_id,
                                    !.rejection_reason = comments],
             publish |-> FALSE]
       ELSE [doc |-> staged, publish |-> FALSE]

WorkflowEvent(event_type, workflow_id, request_id, stage, tenant_id, extra) ==
    [event_type |-> event_type, workflow_id |-> workflow_id,
     request_id |-> request_id, stage |-> stage, tenant_id |-> tenant_id,
     data |-> extra]

(* ------------------------------ throttle ------------------------------- *)

Nil == -1

Workers == 1..NumWorkers

ClientIds == {"10.0.0.1:42"}
Endpoints == {"/digitize"}
ThrottleKeys == ClientIds \X Endpoints

\* endpoints of the requests that are throttled per route: one that
\* default_limits lists and one that it does not
RouteEndpoints == {"/digitize", "/status"}
RouteKeys == ClientIds \X RouteEndpoints

\* two clients and two endpoints: the keys of one client on both endpoints
\* and of a second client on one of them
IsolationClientIds == {"10.0.0.1:42", "10.0.0.2:7"}
IsolationKeys == {k \in IsolationClientIds \X RouteEndpoints : k[1] = "10.0.0.1:42" \/ k[2] = "/digitize"}

\* f"rate_limit:{client_id}:{endpoint}": the text of the redis key
redis_key_text(key) ==
    "rate_limit:" \o key[1] \o ":" \o key[2]

\* default_limits
default_limits(endpoint) ==
    CASE endpoint = "/refine" -> [requests |-> 10, window |-> 60]
      [] endpoint = "/edit" -> [requests |-> 15, window |-> 60]
      [] endpoint = "/digitize" -> [requests |-> 5, window |-> 60]
      [] endpoint = "/upload/async" -> [requests |-> 20, window |-> 60]
      [] OTHER -> [requests |-> 100, window |-> 60]

\* faulty variant: every endpoint is given the "default" entry
max_requests_DefaultOnly(key) ==
    default_limits("default").requests

\* limits["requests"] of the endpoint of the key
max_requests(key) ==
    default_limits(key[2]).requests

window_seconds(key) == default_limits(key[2]).window

\* reset_time - int(time.time()): ttl if ttl > 0 else window_seconds
ResetAfter(key, t) == IF t > 0 THEN t ELSE window_seconds(key)

\* no response yet
NoResponse == [status |-> 0, retry_after |-> Nil, limit |-> Nil, window |-> Nil]

\* wrapper of rate_limit, limited branch: the 429 answer built from
\* g.rate_limit_info
TooManyRequests(key, retry_after) ==
    [status |-> 429, retry_after |-> retry_after, limit |-> max_requests(key), window |-> window_seconds(key)]

\* wrapper of rate_limit, other branch: the response of the wrapped handler
\* with the X-RateLimit-Limit and X-RateLimit-Window headers
Handled(key) ==
    [status |-> 200, retry_after |-> Nil, limit |-> max_requests(key), window |-> window_seconds(key)]

\* the response of the wrapped handler when g.rate_limit_info was not set
HandledBare == [status |-> 200, retry_after |-> Nil, limit |-> Nil, window |-> Nil]

(* --------------------------- pending queries --------------------------- *)

NoQuery == [approver_role |-> None, tenant_id |-> None]

\* stored workflows, tenants and roles of the reviewer queue
PendingWorkflowIds == {"w1", "w2"}
PendingTenantIds == {"default", "t2"}
PendingRoles == {"QC Supervisor", "QC Manager", "Department Head"}

\* faulty variant: the EXISTS clause does not compare stage.stage with
\* c.current_stage
get_pending_approvals_AnyStage(approver_role, tenant_id) ==
    {w \in DOMAIN store :
        /\ store[w] # NoDoc
        /\ store[w].tenant_id = tenant_id
        /\ store[w].status = PENDING
        /\ \E i \in 1..Len(store[w].approval_chain) :
              /\ store[w].approval_chain[i].approver_role = approver_role
              /\ store[w].approval_chain[i].status = PENDING}

\* the rows selected by the query of get_pending_approvals
get_pending_approvals(approver_role, tenant_id) ==
    {w \in DOMAIN store :
        /\ store[w] # NoDoc
        /\ store[w].tenant_id = tenant_id
        /\ store[w].status = PENDING
        /\ \E i \in 1..Len(store[w].approval_chain) :
              /\ store[w].approval_chain[i].approver_role = approver_role
              /\ store[w].approval_chain[i].status = PENDING
              /\ store[w].approval_chain[i].stage = store[w].current_stage}

(* --------------------------- response cache ---------------------------- *)

\* a redis keyspace without keys
NoEntries == [k \in {} |-> None]

\* arguments of get_cached_response and cache_response
UserMessages == {"m1", "m2"}
DocTypes == {"spec"}
ProductNames == {"bread"}
SupplierNames == {"", "acme"}
CacheInputs == [user_message : UserMessages, doc_type : DocTypes, product_name : ProductNames, supplier_name : SupplierNames]

\* inputs of the cache calls made next to store errors and throttle calls
SharedInputs == {i \in CacheInputs : i.supplier_name = ""}

\* llm_response: the stripped text of a completion, which can be empty
Payloads == {"", "p1"}

CacheTtl == 86400

CachePrefix == "swiftcheck:llm:"

\* the dict cache_data of get_cache_key: its members in insertion order
KeyData(i) ==
    <<<<"user_message", i.user_message>>, <<"doc_type", i.doc_type>>, <<"product_name", i.product_name>>, <<"supplier_name", i.supplier_name>>>>

\* the names of the members in sorted order
SortedNames == <<"doc_type", "product_name", "supplier_name", "user_message">>

\* json.dumps(cache_data, sort_keys=True): the members listed by sorted name
DumpsSorted(data) ==
    [n \in 1..Len(data) |-> data[CHOOSE m \in 1..Len(data) : data[m][1] = SortedNames[n]]]

\* hashlib.sha256(...).hexdigest(): the digest stands for the text it is
\* computed from, distinct texts have distinct digests
Digest(text) == text

\* faulty variant: supplier_name is left out of cache_data
get_cache_key_NoSupplier(i) ==
    <<CachePrefix, Digest(DumpsSorted(KeyData([i EXCEPT !.supplier_name = ""])))>>

\* get_cache_key: the prefix followed by the digest of the sorted text
get_cache_key(i) ==
    <<CachePrefix, Digest(DumpsSorted(KeyData(i)))>>

\* json.dumps of the entry written by cache_response: the text of an object
\* with its members in insertion order
Dumps(d) ==
    <<"{", "response", d.response, "cached_at", d.cached_at,
      "product_name", d.product_name, "doc_type", d.doc_type, "}">>

\* json.loads of such a text
Loads(t) ==
    [response |-> t[3], cached_at |-> t[5], product_name |-> t[7], doc_type |-> t[9]]

\* no clear_cache is running
NoClear == [pc |-> "idle", keys |-> {}, cleared |-> 0]

\* redis_key of a throttle counter
redis_key(key) == <<"rate_limit:", key[1], key[2]>>

\* faulty variant: the pattern is "*"
Matches_Any(pattern, k) ==
    k[1] \in {pattern, "rate_limit:"}

\* a key matches the glob pattern "<prefix>*"
Matches(pattern, k) ==
    k[1] = pattern

\* redis keys(pattern) over the one keyspace of cache entries and counters
RedisKeys(pattern) ==
    {k \in DOMAIN cache \cup {redis_key(t) : t \in {u \in ThrottleKeys : counter[u] # Nil}} : Matches(pattern, k)}

\* the inputs of no call
NoInputs == [user_message |-> None, doc_type |-> None, product_name |-> None, supplier_name |-> None]

\* truth value of a stored text: false only for the empty text
TruthyText(text) == Len(text) > 0

\* truth value of a payload: false only for the empty str
TruthyStr(str) == str # ""

\* faulty variant: the hit test looks at the payload, not at the stored text
get_cached_response_PayloadTruthy(i) ==
    LET cache_key == get_cache_key(i)
    IN IF cache_key \in DOMAIN cache /\ TruthyText(cache[cache_key].value) /\ TruthyStr(Loads(cache[cache_key].value).response)
       THEN Loads(cache[cache_key].value).response
       ELSE None

\* get_cached_response: redis get of the key; None for a key that does not
\* exist or holds an empty text, else the response member of the parsed text
get_cached_response(i) ==
    LET cache_key == get_cache_key(i)
    IN IF cache_key \in DOMAIN cache /\ TruthyText(cache[cache_key].value)
       THEN Loads(cache[cache_key].value).response
       ELSE None

(* ------------------------------- Init ---------------------------------- *)

Init ==
    /\ store = [w \in WorkflowIds |-> NoDoc]
    /\ published = {}
    /\ pubCalls = [r \in RequestIds |-> 0]
    /\ events = {}
    /\ clock = 0
    /\ writes = [w \in WorkflowIds |-> 0]
    /\ lastDecision = [w \in WorkflowIds |-> None]
    /\ calls = 0
    /\ pc = [c \in Procs |-> "idle"]
    /\ args = [c \in Procs |-> NoArgs]
    /\ snap = [c \in Procs |-> NoDoc]
    /\ readVer = [c \in Procs |-> 0]
    /\ wf = [c \in Procs |-> NoDoc]
    /\ didPublish = [c \in Procs |-> FALSE]
    /\ result = [c \in Procs |-> None]
    /\ createResult = None
    /\ counter = [k \in ThrottleKeys |-> Nil]
    /\ ttlSet = [k \in ThrottleKeys |-> FALSE]
    /\ admitted = [k \in ThrottleKeys |-> 0]
    /\ rlCalls = 0
    /\ rlPc = [w \in Workers |-> "idle"]
    /\ rlKey = [w \in Workers |-> CHOOSE k \in ThrottleKeys : TRUE]
    /\ rlCur = [w \in Workers |-> Nil]
    /\ rlRet = [w \in Workers |-> FALSE]
    /\ rlRemaining = [w \in Workers |-> Nil]
    /\ ttl = [k \in ThrottleKeys |-> -2]
    /\ rlReset = [w \in Workers |-> 0]
    /\ handlerRuns = [w \in Workers |-> 0]
    /\ response = [w \in Workers |-> NoResponse]
    /\ rlFault = [w \in Workers |-> FALSE]
    /\ pendingQuery = NoQuery
    /\ pendingResult = {}
    /\ cache = NoEntries
    /\ cacheLog = NoEntries
    /\ cacheBy = NoEntries
    /\ cacheAsked = NoInputs
    /\ cacheRet = None
    /\ cacheOps = 0
    /\ clearRun = NoClear
    /\ cacheFault = FALSE
    /\ cacheRaised = FALSE
    /\ cacheStats = Nil

\* the services with two workflow ids known to the callers
InitPending ==
    /\ store = [w \in PendingWorkflowIds |-> NoDoc]
    /\ published = {}
    /\ pubCalls = [r \in RequestIds |-> 0]
    /\ events = {}
    /\ clock = 0
    /\ writes = [w \in PendingWorkflowIds |-> 0]
    /\ lastDecision = [w \in PendingWorkflowIds |-> None]
    /\ calls = 0
    /\ pc = [c \in Procs |-> "idle"]
    /\ args = [c \in Procs |-> NoArgs]
    /\ snap = [c \in Procs |-> NoDoc]
    /\ readVer = [c \in Procs |-> 0]
    /\ wf = [c \in Procs |-> NoDoc]
    /\ didPublish = [c \in Procs |-> FALSE]
    /\ result = [c \in Procs |-> None]
    /\ createResult = None
    /\ counter = [k \in ThrottleKeys |-> Nil]
    /\ ttlSet = [k \in ThrottleKeys |-> FALSE]
    /\ admitted = [k \in ThrottleKeys |-> 0]
    /\ rlCalls = 0
    /\ rlPc = [w \in Workers |-> "idle"]
    /\ rlKey = [w \in Workers |-> CHOOSE k \in ThrottleKeys : TRUE]
    /\ rlCur = [w \in Workers |-> Nil]
    /\ rlRet = [w \in Workers |-> FALSE]
    /\ rlRemaining = [w \in Workers |-> Nil]
    /\ ttl = [k \in ThrottleKeys |-> -2]
    /\ rlReset = [w \in Workers |-> 0]
    /\ handlerRuns = [w \in Workers |-> 0]
    /\ response = [w \in Workers |-> NoResponse]
    /\ rlFault = [w \in Workers |-> FALSE]
    /\ pendingQuery = NoQuery
    /\ pendingResult = {}
    /\ cache = NoEntries
    /\ cacheLog = NoEntries
    /\ cacheBy = NoEntries
    /\ cacheAsked = NoInputs
    /\ cacheRet = None
    /\ cacheOps = 0
    /\ clearRun = NoClear
    /\ cacheFault = FALSE
    /\ cacheRaised = FALSE
    /\ cacheStats = Nil

\* the throttle of two endpoints: either no counter exists, or earlier
\* requests of the running window have brought every counter to one below
\* the limit of its endpoint
InitRoutes ==
    /\ store = [w \in WorkflowIds |-> NoDoc]
    /\ published = {}
    /\ pubCalls = [r \in RequestIds |-> 0]
    /\ events = {}
    /\ clock = 0
    /\ writes = [w \in WorkflowIds |-> 0]
    /\ lastDecision = [w \in WorkflowIds |-> None]
    /\ calls = 0
    /\ pc = [c \in Procs |-> "idle"]
    /\ args = [c \in Procs |-> NoArgs]
    /\ snap = [c \in Procs |-> NoDoc]
    /\ readVer = [c \in Procs |-> 0]
    /\ wf = [c \in Procs |-> NoDoc]
    /\ didPublish = [c \in Procs |-> FALSE]
    /\ result = [c \in Procs |-> None]
    /\ createResult = None
    /\ counter \in [RouteKeys -> {Nil}] \cup {[k \in RouteKeys |-> default_limits(k[2]).requests - 1]}
    /\ ttlSet = [k \in RouteKeys |-> counter[k] # Nil]
    /\ admitted = [k \in RouteKeys |-> IF counter[k] = Nil THEN 0 ELSE counter[k]]
    /\ rlCalls = 0
    /\ rlPc = [w \in Workers |-> "idle"]
    /\ rlKey = [w \in Workers |-> CHOOSE k \in RouteKeys : TRUE]
    /\ rlCur = [w \in Workers |-> Nil]
    /\ rlRet = [w \in Workers |-> FALSE]
    /\ rlRemaining = [w \in Workers |-> Nil]
    /\ ttl = [k \in RouteKeys |-> IF counter[k] = Nil THEN -2 ELSE default_limits(k[2]).window]
    /\ rlReset = [w \in Workers |-> 0]
    /\ handlerRuns = [w \in Workers |-> 0]
    /\ response = [w \in Workers |-> NoResponse]
    /\ rlFault = [w \in Workers |-> FALSE]
    /\ pendingQuery = NoQuery
    /\ pendingResult = {}
    /\ cache = NoEntries
    /\ cacheLog = NoEntries
    /\ cacheBy = NoEntries
    /\ cacheAsked = NoInputs
    /\ cacheRet = None
    /\ cacheOps = 0
    /\ clearRun = NoClear
    /\ cacheFault = FALSE
    /\ cacheRaised = FALSE
    /\ cacheStats = Nil

\* the throttle of two clients: no counter exists, or earlier requests of
\* the running window have brought every counter to one below its limit
InitIsolation ==
    /\ store = [w \in WorkflowIds |-> NoDoc]
    /\ published = {}
    /\ pubCalls = [r \in RequestIds |-> 0]
    /\ events = {}
    /\ clock = 0
    /\ writes = [w \in WorkflowIds |-> 0]
    /\ lastDecision = [w \in WorkflowIds |-> None]
    /\ calls = 0
    /\ pc = [c \in Procs |-> "idle"]
    /\ args = [c \in Procs |-> NoArgs]
    /\ snap = [c \in Procs |-> NoDoc]
    /\ readVer = [c \in Procs |-> 0]
    /\ wf = [c \in Procs |-> NoDoc]
    /\ didPublish = [c \in Procs |-> FALSE]
    /\ result = [c \in Procs |-> None]
    /\ createResult = None
    /\ counter \in [IsolationKeys -> {Nil}] \cup {[k \in IsolationKeys |-> default_limits(k[2]).requests - 1]}
    /\ ttlSet = [k \in IsolationKeys |-> counter[k] # Nil]
    /\ admitted = [k \in IsolationKeys |-> IF counter[k] = Nil THEN 0 ELSE counter[k]]
    /\ rlCalls = 0
    /\ rlPc = [w \in Workers |-> "idle"]
    /\ rlKey = [w \in Workers |-> CHOOSE k \in IsolationKeys : TRUE]
    /\ rlCur = [w \in Workers |-> Nil]
    /\ rlRet = [w \in Workers |-> FALSE]
    /\ rlRemaining = [w \in Workers |-> Nil]
    /\ ttl = [k \in IsolationKeys |-> IF counter[k] = Nil THEN -2 ELSE default_limits(k[2]).window]
    /\ rlReset = [w \in Workers |-> 0]
    /\ handlerRuns = [w \in Workers |-> 0]
    /\ response = [w \in Workers |-> NoResponse]
    /\ rlFault = [w \in Workers |-> FALSE]
    /\ pendingQuery = NoQuery
    /\ pendingResult = {}
    /\ cache = NoEntries
    /\ cacheLog = NoEntries
    /\ cacheBy = NoEntries
    /\ cacheAsked = NoInputs
    /\ cacheRet = None
    /\ cacheOps = 0
    /\ clearRun = NoClear
    /\ cacheFault = FALSE
    /\ cacheRaised = FALSE
    /\ cacheStats = Nil

(* -------------------------- workflow actions --------------------------- *)

\* requests are interchangeable: an arriving request takes the lowest idle slot
FreeSlot(c) ==
    /\ pc[c] = "idle"
    /\ \A d \in Procs : d < c => pc[d] # "idle"

\* faulty variant: the record is written with upsert_item, whatever is stored
CreateWorkflow_Upsert(w, request_id, tenant_id) ==
    /\ clock' = clock + 1
    /\ store' = [store EXCEPT ![w] = NewWorkflow(request_id, tenant_id, clock')]
    /\ events' = events \cup
          {WorkflowEvent("WorkflowStarted", w, request_id, QC_REVIEW,
                         tenant_id, None)}
    /\ createResult' = "ok"
    /\ UNCHANGED <<published, pubCalls, writes, lastDecision, calls, pc, args, snap,
                   readVer, wf, didPublish, result>>
    /\ UNCHANGED <<rlVars, qVars, cacheVars>>

\* create_approval_workflow: create_item, then the WorkflowStarted event
CreateWorkflow(w, request_id, tenant_id) ==
    /\ store[w] = NoDoc
    /\ clock' = clock + 1
    /\ store' = [store EXCEPT ![w] = NewWorkflow(request_id, tenant_id, clock')]
    /\ events' = events \cup
          {WorkflowEvent("WorkflowStarted", w, request_id, QC_REVIEW,
                         tenant_id, None)}
    /\ createResult' = "ok"
    /\ UNCHANGED <<published, pubCalls, writes, lastDecision, calls, pc, args, snap,
                   readVer, wf, didPublish, result>>
    /\ UNCHANGED <<rlVars, qVars, cacheVars>>

\* faulty variant: the exception of read_item is swallowed, the call goes on
\* to the event and returns normally
SubmitNotFound_Swallowed(c, w, approver_id, approver_role, decision, comments) ==
    /\ calls < MaxCalls
    /\ FreeSlot(c)
    /\ store[w] = NoDoc
    /\ calls' = calls + 1
    /\ result' = [result EXCEPT ![c] = "ok"]
    /\ events' = events \cup
          {WorkflowEvent("ApprovalSubmitted", w, None, None, None,
                         [decision |-> decision, approver |-> approver_role])}
    /\ UNCHANGED <<store, published, pubCalls, clock, writes, lastDecision, pc,
                   args, snap, readVer, wf, didPublish>>
    /\ UNCHANGED <<createResult, rlVars, qVars, cacheVars>>

\* submit_approval: read_item raises for an unknown id; the exception is
\* re-raised to the caller
SubmitNotFound(c, w, approver_id, approver_role, decision, comments) ==
    /\ calls < MaxCalls
    /\ FreeSlot(c)
    /\ store[w] = NoDoc
    /\ calls' = calls + 1
    /\ result' = [result EXCEPT ![c] = "error"]
    /\ UNCHANGED <<store, published, pubCalls, events, clock, writes, lastDecision, pc,
                   args, snap, readVer, wf, didPublish>>
    /\ UNCHANGED <<createResult, rlVars, qVars, cacheVars>>

\* faulty variant: a call whose approver_role is not the one of the current
\* stage record is refused with an error
SubmitRead_RoleChecked(c, w, approver_id, approver_role, decision, comments) ==
    IF /\ store[w] # NoDoc
       /\ \E i \in 1..Len(store[w].approval_chain) :
             /\ store[w].approval_chain[i].stage = store[w].current_stage
             /\ store[w].approval_chain[i].approver_role # approver_role
    THEN /\ calls < MaxCalls
         /\ FreeSlot(c)
         /\ store[w] # NoDoc
         /\ calls' = calls + 1
         /\ result' = [result EXCEPT ![c] = "error"]
         /\ UNCHANGED <<store, published, pubCalls, events, clock, writes,
                        lastDecision, pc, args, snap, readVer, wf, didPublish>>
         /\ UNCHANGED <<createResult, rlVars, qVars, cacheVars>>
    ELSE
         /\ calls < MaxCalls
         /\ FreeSlot(c)
         /\ store[w] # NoDoc
         /\ calls' = calls + 1
         /\ clock' = clock + 1
         /\ args' = [args EXCEPT ![c] =
               [workflow_id |-> w, approver_id |-> approver_id,
                approver_role |-> approver_role, decision |-> decision,
                comments |-> comments]]
         /\ snap' = [snap EXCEPT ![c] = store[w]]
         /\ readVer' = [readVer EXCEPT ![c] = writes[w]]
         /\ LET r == ApplyDecision(store[w], approver_id, decision, comments, clock')
            IN IF r.publish
               THEN /\ wf' = [wf EXCEPT ![c] = r.doc]
                    /\ pc' = [pc EXCEPT ![c] = "publish"]
               ELSE /\ wf' = [wf EXCEPT ![c] = [r.doc EXCEPT !.updated_at = clock']]
                    /\ pc' = [pc EXCEPT ![c] = "replace"]
         /\ result' = [result EXCEPT ![c] = None]
         /\ UNCHANGED <<store, published, pubCalls, events, writes, lastDecision, didPublish>>
         /\ UNCHANGED <<createResult, rlVars, qVars, cacheVars>>

\* submit_approval: read_item, then the stage update and the decision
\* branch on the local dict, up to the call of publish_template
SubmitRead(c, w, approver_id, approver_role, decision, comments) ==
    /\ calls < MaxCalls
    /\ FreeSlot(c)
    /\ store[w] # NoDoc
    /\ calls' = calls + 1
    /\ clock' = clock + 1
    /\ args' = [args EXCEPT ![c] =
          [workflow_id |-> w, approver_id |-> approver_id,
           approver_role |-> approver_role, decision |-> decision,
           comments |-> comments]]
    /\ snap' = [snap EXCEPT ![c] = store[w]]
    /\ readVer' = [readVer EXCEPT ![c] = writes[w]]
    /\ LET r == ApplyDecision(store[w], approver_id, decision, comments, clock')
       IN IF r.publish
          THEN /\ wf' = [wf EXCEPT ![c] = r.doc]
               /\ pc' = [pc EXCEPT ![c] = "publish"]
          ELSE /\ wf' = [wf EXCEPT ![c] = [r.doc EXCEPT !.updated_at = clock']]
               /\ pc' = [pc EXCEPT ![c] = "replace"]
    /\ result' = [result EXCEPT ![c] = None]
    /\ UNCHANGED <<store, published, pubCalls, events, writes, lastDecision, didPublish>>
    /\ UNCHANGED <<createResult, rlVars, qVars, cacheVars>>

\* publish_template: create_item of published_<request_id>; a second
\* create of the same id raises inside publish_template and is swallowed.
\* Then updated_at is set on the local dict.
SubmitPublish(c) ==
    /\ pc[c] = "publish"
    /\ LET r == wf[c].request_id
       IN /\ pubCalls' = [pubCalls EXCEPT ![r] = @ + 1]
          /\ published' = published \cup {r}
    /\ didPublish' = [didPublish EXCEPT ![c] = TRUE]
    /\ wf' = [wf EXCEPT ![c].updated_at = clock]
    /\ pc' = [pc EXCEPT ![c] = "replace"]
    /\ UNCHANGED <<store, events, clock, writes, lastDecision,
            calls, args, snap,
                   readVer, result>>
    /\ UNCHANGED <<createResult, rlVars, qVars, cacheVars>>

\* replace_item with the local dict, the ApprovalSubmitted event, return
SubmitReplace(c) ==
    /\ pc[c] = "replace"
    /\ LET w == args[c].workflow_id
       IN /\ store' = [store EXCEPT ![w] = wf[c]]
          /\ writes' = [writes EXCEPT ![w] = @ + 1]
          /\ lastDecision' = [lastDecision EXCEPT ![w] = args[c].decision]
          /\ events' = events \cup
                {WorkflowEvent("ApprovalSubmitted", w, wf[c].request_id,
                               wf[c].current_stage, wf[c].tenant_id,
                               [decision |-> args[c].decision,
                                approver |-> args[c].approver_role])}
    /\ pc' = [pc EXCEPT ![c] = "idle"]
    /\ result' = [result EXCEPT ![c] = "ok"]
    /\ args' = [args EXCEPT ![c] = NoArgs]
    /\ snap' = [snap EXCEPT ![c] = NoDoc]
    /\ readVer' = [readVer EXCEPT ![c] = 0]
    /\ wf' = [wf EXCEPT ![c] = NoDoc]
    /\ didPublish' = [didPublish EXCEPT ![c] = FALSE]
    /\ UNCHANGED <<published, pubCalls, clock, calls>>
    /\ UNCHANGED <<createResult, rlVars, qVars, cacheVars>>

Next ==
    \/ \E w \in WorkflowIds, r \in RequestIds, t \in TenantIds :
          CreateWorkflow(w, r, t)
    \/ \E c \in Procs, w \in WorkflowIds, a \in ApproverIds,
          ro \in ApproverRoles, d \in Decisions, cm \in CommentTexts :
          SubmitNotFound(c, w, a, ro, d, cm)
    \/ \E c \in Procs, w \in WorkflowIds, a \in ApproverIds,
          ro \in ApproverRoles, d \in Decisions, cm \in CommentTexts :
          SubmitRead(c, w, a, ro, d, cm)
    \/ \E c \in Procs : SubmitPublish(c)
    \/ \E c \in Procs : SubmitReplace(c)

Spec == Init /\ [][Next]_vars

\* the one approver and the one comment of the behaviours that vary something
\* other than the request inputs
FaultApproverIds == {"u1"}
FaultCommentTexts == {"missing spec"}

(* ------------------- workflow while the days pass ---------------------- *)

\* hours in a day; the clock of these behaviours counts hours
DayHours == 24

\* a day passes and no request arrives: the core has no timer and no
\* background job, so nothing but the wall clock moves
DayPasses ==
    /\ clock < DayHours * MaxDays
    /\ clock' = clock + DayHours
    /\ UNCHANGED <<store, published, pubCalls, events, writes, lastDecision,
                   calls, pc, args, snap, readVer, wf, didPublish, result>>
    /\ UNCHANGED <<createResult, rlVars, qVars, cacheVars>>

NextDue ==
    \/ \E w \in WorkflowIds, r \in RequestIds, t \in TenantIds :
          CreateWorkflow(w, r, t)
    \/ \E c \in Procs, w \in WorkflowIds, a \in FaultApproverIds,
          ro \in ApproverRoles, d \in Decisions, cm \in FaultCommentTexts :
          SubmitRead(c, w, a, ro, d, cm)
    \/ \E c \in Procs : SubmitPublish(c)
    \/ \E c \in Procs : SubmitReplace(c)
    \/ DayPasses

SpecDue == Init /\ [][NextDue]_vars

(* --------------------- workflow with failing services ------------------ *)

\* create_approval_workflow: create_item raises, the exception is re-raised
\* before send_workflow_event is reached
CreateWorkflowFails(w, request_id, tenant_id) ==
    /\ store[w] = NoDoc
    /\ createResult' = "error"
    /\ UNCHANGED <<store, published, pubCalls, events, clock, writes,
                   lastDecision, calls, pc, args, snap, readVer, wf,
                   didPublish, result>>
    /\ UNCHANGED <<rlVars, qVars, cacheVars>>

\* create_approval_workflow: create_item succeeds; send_workflow_event has
\* no client or catches the error of client.send, and returns
CreateWorkflowEventLost(w, request_id, tenant_id) ==
    /\ store[w] = NoDoc
    /\ clock' = clock + 1
    /\ store' = [store EXCEPT ![w] = NewWorkflow(request_id, tenant_id, clock')]
    /\ createResult' = "ok"
    /\ UNCHANGED <<published, pubCalls, events, writes, lastDecision, calls,
                   pc, args, snap, readVer, wf, didPublish, result>>
    /\ UNCHANGED <<rlVars, qVars, cacheVars>>

\* faulty variant: the exception of replace_item is swallowed
SubmitReplaceFails_Swallowed(c) ==
    /\ pc[c] = "replace"
    /\ pc' = [pc EXCEPT ![c] = "idle"]
    /\ result' = [result EXCEPT ![c] = "ok"]
    /\ args' = [args EXCEPT ![c] = NoArgs]
    /\ snap' = [snap EXCEPT ![c] = NoDoc]
    /\ readVer' = [readVer EXCEPT ![c] = 0]
    /\ wf' = [wf EXCEPT ![c] = NoDoc]
    /\ didPublish' = [didPublish EXCEPT ![c] = FALSE]
    /\ UNCHANGED <<store, published, pubCalls, events, clock, writes,
                   lastDecision, calls, createResult>>
    /\ UNCHANGED <<rlVars, qVars, cacheVars>>

\* faulty variant: the event is sent before replace_item is tried
SubmitReplaceFails_EventFirst(c) ==
    /\ pc[c] = "replace"
    /\ events' = events \cup
          {WorkflowEvent("ApprovalSubmitted", args[c].workflow_id,
                         wf[c].request_id, wf[c].current_stage,
                         wf[c].tenant_id,
                         [decision |-> args[c].decision,
                          approver |-> args[c].approver_role])}
    /\ pc' = [pc EXCEPT ![c] = "idle"]
    /\ result' = [result EXCEPT ![c] = "error"]
    /\ args' = [args EXCEPT ![c] = NoArgs]
    /\ snap' = [snap EXCEPT ![c] = NoDoc]
    /\ readVer' = [readVer EXCEPT ![c] = 0]
    /\ wf' = [wf EXCEPT ![c] = NoDoc]
    /\ didPublish' = [didPublish EXCEPT ![c] = FALSE]
    /\ UNCHANGED <<store, published, pubCalls, clock, writes, lastDecision,
                   calls, createResult>>
    /\ UNCHANGED <<rlVars, qVars, cacheVars>>

\* submit_approval: replace_item raises; the except clause re-raises, the
\* event is not sent and the route answers with an error
SubmitReplaceFails(c) ==
    /\ pc[c] = "replace"
    /\ pc' = [pc EXCEPT ![c] = "idle"]
    /\ result' = [result EXCEPT ![c] = "error"]
    /\ args' = [args EXCEPT ![c] = NoArgs]
    /\ snap' = [snap EXCEPT ![c] = NoDoc]
    /\ readVer' = [readVer EXCEPT ![c] = 0]
    /\ wf' = [wf EXCEPT ![c] = NoDoc]
    /\ didPublish' = [didPublish EXCEPT ![c] = FALSE]
    /\ UNCHANGED <<store, published, pubCalls, events, clock, writes,
                   lastDecision, calls, createResult>>
    /\ UNCHANGED <<rlVars, qVars, cacheVars>>

\* faulty variant: the failure of send_workflow_event reaches the caller
SubmitReplaceEventLost_Raises(c) ==
    /\ pc[c] = "replace"
    /\ LET w == args[c].workflow_id
       IN /\ store' = [store EXCEPT ![w] = wf[c]]
          /\ writes' = [writes EXCEPT ![w] = @ + 1]
          /\ lastDecision' = [lastDecision EXCEPT ![w] = args[c].decision]
    /\ pc' = [pc EXCEPT ![c] = "idle"]
    /\ result' = [result EXCEPT ![c] = "error"]
    /\ args' = [args EXCEPT ![c] = NoArgs]
    /\ snap' = [snap EXCEPT ![c] = NoDoc]
    /\ readVer' = [readVer EXCEPT ![c] = 0]
    /\ wf' = [wf EXCEPT ![c] = NoDoc]
    /\ didPublish' = [didPublish EXCEPT ![c] = FALSE]
    /\ UNCHANGED <<published, pubCalls, events, clock, calls, createResult>>
    /\ UNCHANGED <<rlVars, qVars, cacheVars>>

\* submit_approval: replace_item succeeds; send_workflow_event has no client
\* or catches the error of client.send; the workflow is returned
SubmitReplaceEventLost(c) ==
    /\ pc[c] = "replace"
    /\ LET w == args[c].workflow_id
       IN /\ store' = [store EXCEPT ![w] = wf[c]]
          /\ writes' = [writes EXCEPT ![w] = @ + 1]
          /\ lastDecision' = [lastDecision EXCEPT ![w] = args[c].decision]
    /\ pc' = [pc EXCEPT ![c] = "idle"]
    /\ result' = [result EXCEPT ![c] = "ok"]
    /\ args' = [args EXCEPT ![c] = NoArgs]
    /\ snap' = [snap EXCEPT ![c] = NoDoc]
    /\ readVer' = [readVer EXCEPT ![c] = 0]
    /\ wf' = [wf EXCEPT ![c] = NoDoc]
    /\ didPublish' = [didPublish EXCEPT ![c] = FALSE]
    /\ UNCHANGED <<published, pubCalls, events, clock, calls, createResult>>
    /\ UNCHANGED <<rlVars, qVars, cacheVars>>


NextFaults ==
    \/ \E w \in WorkflowIds, r \in RequestIds, t \in TenantIds :
          CreateWorkflow(w, r, t)
    \/ \E w \in WorkflowIds, r \in RequestIds, t \in TenantIds :
          CreateWorkflowFails(w, r, t)
    \/ \E w \in WorkflowIds, r \in RequestIds, t \in TenantIds :
          CreateWorkflowEventLost(w, r, t)
    \/ \E c \in Procs, w \in WorkflowIds, a \in FaultApproverIds,
          ro \in ApproverRoles, d \in Decisions, cm \in FaultCommentTexts :
          SubmitNotFound(c, w, a, ro, d, cm)
    \/ \E c \in Procs, w \in WorkflowIds, a \in FaultApproverIds,
          ro \in ApproverRoles, d \in Decisions, cm \in FaultCommentTexts :
          SubmitRead(c, w, a, ro, d, cm)
    \/ \E c \in Procs : SubmitPublish(c)
    \/ \E c \in Procs : SubmitReplace(c)
    \/ \E c \in Procs : SubmitReplaceFails(c)
    \/ \E c \in Procs : SubmitReplaceEventLost(c)

SpecFaults == Init /\ [][NextFaults]_vars

(* ------------------ workflow with a failing publication ---------------- *)

\* publish_template: create_item of published_<request_id> raises on a store
\* error; the except clause of publish_template prints and returns, and
\* submit_approval goes on to updated_at and replace_item
SubmitPublishFails(c) ==
    /\ pc[c] = "publish"
    /\ pubCalls' = [pubCalls EXCEPT ![wf[c].request_id] = @ + 1]
    /\ didPublish' = [didPublish EXCEPT ![c] = TRUE]
    /\ wf' = [wf EXCEPT ![c].updated_at = clock]
    /\ pc' = [pc EXCEPT ![c] = "replace"]
    /\ UNCHANGED <<store, published, events, clock, writes, lastDecision,
                   calls, args, snap, readVer, result>>
    /\ UNCHANGED <<createResult, rlVars, qVars, cacheVars>>

NextPublishFaults ==
    \/ \E w \in WorkflowIds, r \in RequestIds, t \in TenantIds :
          CreateWorkflow(w, r, t)
    \/ \E c \in Procs, w \in WorkflowIds, a \in FaultApproverIds,
          ro \in ApproverRoles, d \in Decisions, cm \in FaultCommentTexts :
          SubmitRead(c, w, a, ro, d, cm)
    \/ \E c \in Procs : SubmitPublish(c)
    \/ \E c \in Procs : SubmitPublishFails(c)
    \/ \E c \in Procs : SubmitReplace(c)

SpecPublishFaults == Init /\ [][NextPublishFaults]_vars

(* ------------------ workflow that is only approved --------------------- *)

\* an approval arrives for a workflow on which no other submit_approval is
\* running
SubmitApproveAlone(c, w, approver_id, approver_role, comments) ==
    /\ \A d \in Procs : pc[d] # "idle" => args[d].workflow_id # w
    /\ SubmitRead(c, w, approver_id, approver_role, APPROVED, comments)

NextApprove ==
    \/ \E w \in WorkflowIds, r \in RequestIds, t \in TenantIds :
          CreateWorkflow(w, r, t)
    \/ \E c \in Procs, w \in WorkflowIds, a \in ApproverIds,
          ro \in ApproverRoles, cm \in CommentTexts :
          SubmitApproveAlone(c, w, a, ro, cm)
    \/ \E c \in Procs : SubmitPublish(c)
    \/ \E c \in Procs : SubmitReplace(c)

\* the requests keep arriving and every call that has started goes on to
\* its return
SpecApprove == Init /\ [][NextApprove]_vars /\ WF_vars(NextApprove)

(* ------------------ workflow decided under any role ------------------- *)

\* approver_role of the requests: the role of each stage of the chain
RoleInputs == {"QC Supervisor", "QC Manager", "Department Head"}

NextRoles ==
    \/ \E w \in WorkflowIds, r \in RequestIds, t \in TenantIds :
          CreateWorkflow(w, r, t)
    \/ \E c \in Procs, w \in WorkflowIds, a \in FaultApproverIds,
          ro \in RoleInputs, d \in Decisions, cm \in FaultCommentTexts :
          SubmitRead(c, w, a, ro, d, cm)
    \/ \E c \in Procs : SubmitPublish(c)
    \/ \E c \in Procs : SubmitReplace(c)

SpecRoles == Init /\ [][NextRoles]_vars

(* -------------------------- throttle actions --------------------------- *)

\* requests are interchangeable: an arriving request takes the lowest idle worker
FreeWorker(w) ==
    /\ rlPc[w] = "idle"
    /\ \A v \in Workers : v < w => rlPc[v] # "idle"

\* faulty variant: the limit test is "current_requests > max_requests"
ThrottleGet_OffByOne(w, key) ==
    /\ rlCalls < MaxThrottleCalls
    /\ FreeWorker(w)
    /\ rlCalls' = rlCalls + 1
    /\ rlKey' = [rlKey EXCEPT ![w] = key]
    /\ rlCur' = [rlCur EXCEPT ![w] = counter[key]]
    /\ rlPc' = [rlPc EXCEPT ![w] =
          IF counter[key] = Nil THEN "setex"
          ELSE IF counter[key] > max_requests(key) THEN "exceeded"
          ELSE "incr"]
    /\ handlerRuns' = [handlerRuns EXCEPT ![w] = 0]
    /\ rlFault' = [rlFault EXCEPT ![w] = FALSE]
    /\ UNCHANGED <<counter, ttlSet, admitted, rlRet, rlRemaining, ttl, rlReset,
                   response>>
    /\ UNCHANGED <<wfVars, qVars, cacheVars>>

\* is_rate_limited: redis get, then the branch on current_requests
ThrottleGet(w, key) ==
    /\ rlCalls < MaxThrottleCalls
    /\ FreeWorker(w)
    /\ rlCalls' = rlCalls + 1
    /\ rlKey' = [rlKey EXCEPT ![w] = key]
    /\ rlCur' = [rlCur EXCEPT ![w] = counter[key]]
    /\ rlPc' = [rlPc EXCEPT ![w] =
          IF counter[key] = Nil THEN "setex"
          ELSE IF counter[key] >= max_requests(key) THEN "exceeded"
          ELSE "incr"]
    /\ handlerRuns' = [handlerRuns EXCEPT ![w] = 0]
    /\ rlFault' = [rlFault EXCEPT ![w] = FALSE]
    /\ UNCHANGED <<counter, ttlSet, admitted, rlRet, rlRemaining, ttl, rlReset,
                   response>>
    /\ UNCHANGED <<wfVars, qVars, cacheVars>>

\* current_requests is None: setex(redis_key, window_seconds, 1), return
\* False; the wrapper of rate_limit then executes the handler
ThrottleSetEx(w) ==
    /\ rlPc[w] = "setex"
    /\ counter' = [counter EXCEPT ![rlKey[w]] = 1]
    /\ ttlSet' = [ttlSet EXCEPT ![rlKey[w]] = TRUE]
    /\ ttl' = [ttl EXCEPT ![rlKey[w]] = window_seconds(rlKey[w])]
    /\ rlReset' = [rlReset EXCEPT ![w] = window_seconds(rlKey[w])]
    /\ rlRemaining' = [rlRemaining EXCEPT ![w] = max_requests(rlKey[w]) - 1]
    /\ rlRet' = [rlRet EXCEPT ![w] = FALSE]
    /\ admitted' = [admitted EXCEPT ![rlKey[w]] = @ + 1]
    /\ rlPc' = [rlPc EXCEPT ![w] = "idle"]
    /\ handlerRuns' = [handlerRuns EXCEPT ![w] = @ + 1]
    /\ response' = [response EXCEPT ![w] = Handled(rlKey[w])]
    /\ UNCHANGED <<rlCalls, rlKey, rlCur, rlFault>>
    /\ UNCHANGED <<wfVars, qVars, cacheVars>>

\* faulty variant: the wrapper builds the 429 answer but lets the handler run
ThrottleExceeded_RunsHandler(w) ==
    /\ rlPc[w] = "exceeded"
    /\ rlRemaining' = [rlRemaining EXCEPT ![w] = 0]
    /\ rlReset' = [rlReset EXCEPT ![w] = ResetAfter(rlKey[w], ttl[rlKey[w]])]
    /\ rlRet' = [rlRet EXCEPT ![w] = TRUE]
    /\ rlPc' = [rlPc EXCEPT ![w] = "idle"]
    /\ handlerRuns' = [handlerRuns EXCEPT ![w] = @ + 1]
    /\ response' = [response EXCEPT ![w] =
          TooManyRequests(rlKey[w], ResetAfter(rlKey[w], ttl[rlKey[w]]))]
    /\ UNCHANGED <<counter, ttlSet, admitted, rlCalls, rlKey, rlCur, ttl,
                   rlFault>>
    /\ UNCHANGED <<wfVars, qVars, cacheVars>>

\* current_requests >= max_requests: redis ttl, return True; the wrapper of
\* rate_limit then answers 429 without executing the handler
ThrottleExceeded(w) ==
    /\ rlPc[w] = "exceeded"
    /\ rlRemaining' = [rlRemaining EXCEPT ![w] = 0]
    /\ rlReset' = [rlReset EXCEPT ![w] = ResetAfter(rlKey[w], ttl[rlKey[w]])]
    /\ rlRet' = [rlRet EXCEPT ![w] = TRUE]
    /\ rlPc' = [rlPc EXCEPT ![w] = "idle"]
    /\ response' = [response EXCEPT ![w] =
          TooManyRequests(rlKey[w], ResetAfter(rlKey[w], ttl[rlKey[w]]))]
    /\ UNCHANGED <<counter, ttlSet, admitted, rlCalls, rlKey, rlCur, ttl,
                   handlerRuns, rlFault>>
    /\ UNCHANGED <<wfVars, qVars, cacheVars>>

\* faulty variant: the counter is kept per client, incr counts on every
\* endpoint of the client
ThrottleIncr_PerClient(w) ==
    /\ rlPc[w] = "incr"
    /\ counter' = [k \in DOMAIN counter |->
          IF k[1] # rlKey[w][1] THEN counter[k]
          ELSE IF counter[k] = Nil THEN 1 ELSE counter[k] + 1]
    /\ ttl' = [ttl EXCEPT ![rlKey[w]] = IF counter[rlKey[w]] = Nil THEN -1 ELSE @]
    /\ rlRemaining' = [rlRemaining EXCEPT ![w] =
          max_requests(rlKey[w]) - (rlCur[w] + 1)]
    /\ rlPc' = [rlPc EXCEPT ![w] = "ttl"]
    /\ admitted' = [admitted EXCEPT ![rlKey[w]] = @ + 1]
    /\ UNCHANGED <<ttlSet, rlCalls, rlKey, rlCur, rlRet, rlReset, handlerRuns,
                   response, rlFault>>
    /\ UNCHANGED <<wfVars, qVars, cacheVars>>

\* redis incr: an absent key is created with value 1 and no expiry; from
\* here on the call returns False
ThrottleIncr(w) ==
    /\ rlPc[w] = "incr"
    /\ counter' = [counter EXCEPT ![rlKey[w]] = IF @ = Nil THEN 1 ELSE @ + 1]
    /\ ttl' = [ttl EXCEPT ![rlKey[w]] = IF counter[rlKey[w]] = Nil THEN -1 ELSE @]
    /\ rlRemaining' = [rlRemaining EXCEPT ![w] =
          max_requests(rlKey[w]) - (rlCur[w] + 1)]
    /\ rlPc' = [rlPc EXCEPT ![w] = "ttl"]
    /\ admitted' = [admitted EXCEPT ![rlKey[w]] = @ + 1]
    /\ UNCHANGED <<ttlSet, rlCalls, rlKey, rlCur, rlRet, rlReset, handlerRuns,
                   response, rlFault>>
    /\ UNCHANGED <<wfVars, qVars, cacheVars>>

\* redis ttl after the increment, return False; the wrapper of rate_limit
\* then executes the handler
ThrottleAdmit(w) ==
    /\ rlPc[w] = "ttl"
    /\ rlRet' = [rlRet EXCEPT ![w] = FALSE]
    /\ rlReset' = [rlReset EXCEPT ![w] = ResetAfter(rlKey[w], ttl[rlKey[w]])]
    /\ rlPc' = [rlPc EXCEPT ![w] = "idle"]
    /\ handlerRuns' = [handlerRuns EXCEPT ![w] = @ + 1]
    /\ response' = [response EXCEPT ![w] = Handled(rlKey[w])]
    /\ UNCHANGED <<counter, ttlSet, admitted, rlCalls, rlKey, rlCur, rlRemaining,
                   ttl, rlFault>>
    /\ UNCHANGED <<wfVars, qVars, cacheVars>>

\* redis drops a key whose expiry has passed: the window ends
ThrottleExpire(key) ==
    /\ counter[key] # Nil
    /\ ttlSet[key]
    /\ counter' = [counter EXCEPT ![key] = Nil]
    /\ ttlSet' = [ttlSet EXCEPT ![key] = FALSE]
    /\ admitted' = [admitted EXCEPT ![key] = 0]
    /\ ttl' = [ttl EXCEPT ![key] = -2]
    /\ UNCHANGED <<rlCalls, rlPc, rlKey, rlCur, rlRet, rlRemaining, rlReset,
                   handlerRuns, response, rlFault>>
    /\ UNCHANGED <<wfVars, qVars, cacheVars>>

NextThrottle ==
    \/ \E w \in Workers, k \in ThrottleKeys : ThrottleGet(w, k)
    \/ \E w \in Workers : ThrottleSetEx(w)
    \/ \E w \in Workers : ThrottleExceeded(w)
    \/ \E w \in Workers : ThrottleIncr(w)
    \/ \E w \in Workers : ThrottleAdmit(w)
    \/ \E k \in ThrottleKeys : ThrottleExpire(k)

SpecThrottle == Init /\ [][NextThrottle]_vars

(* ---------------------- throttle, one call at a time ------------------- *)

\* a request arrives when no other is_rate_limited call is running
ThrottleGetAlone(w, key) ==
    /\ \A v \in Workers : rlPc[v] = "idle"
    /\ ThrottleGet(w, key)

\* one second passes: a key that carries an expiry loses a second of life,
\* and redis drops it when none is left
ThrottleTick(key) ==
    /\ ttl[key] >= 0
    /\ IF ttl[key] > 0
       THEN /\ ttl' = [ttl EXCEPT ![key] = @ - 1]
            /\ UNCHANGED <<counter, ttlSet, admitted>>
       ELSE /\ ttl' = [ttl EXCEPT ![key] = -2]
            /\ counter' = [counter EXCEPT ![key] = Nil]
            /\ ttlSet' = [ttlSet EXCEPT ![key] = FALSE]
            /\ admitted' = [admitted EXCEPT ![key] = 0]
    /\ UNCHANGED <<rlCalls, rlPc, rlKey, rlCur, rlRet, rlRemaining, rlReset,
                   handlerRuns, response, rlFault>>
    /\ UNCHANGED <<wfVars, qVars, cacheVars>>

NextThrottleSeq ==
    \/ \E w \in Workers, k \in ThrottleKeys : ThrottleGetAlone(w, k)
    \/ \E w \in Workers : ThrottleSetEx(w)
    \/ \E w \in Workers : ThrottleExceeded(w)
    \/ \E w \in Workers : ThrottleIncr(w)
    \/ \E w \in Workers : ThrottleAdmit(w)
    \/ \E k \in ThrottleKeys : ThrottleTick(k)

SpecThrottleSeq == Init /\ [][NextThrottleSeq]_vars

(* ---------------------- throttle of several endpoints ------------------ *)

\* a request for one of the endpoints arrives
RouteGet(w, key) ==
    /\ rlCalls < MaxRouteCalls
    /\ ThrottleGet(w, key)

NextRoutes ==
    \/ \E w \in Workers, k \in RouteKeys : RouteGet(w, k)
    \/ \E w \in Workers : ThrottleSetEx(w)
    \/ \E w \in Workers : ThrottleExceeded(w)
    \/ \E w \in Workers : ThrottleIncr(w)
    \/ \E w \in Workers : ThrottleAdmit(w)
    \/ \E k \in RouteKeys : ThrottleExpire(k)

SpecRoutes == InitRoutes /\ [][NextRoutes]_vars

(* ---------------------- throttle of several clients -------------------- *)

NextIsolation ==
    \/ \E w \in Workers, k \in IsolationKeys : RouteGet(w, k)
    \/ \E w \in Workers : ThrottleSetEx(w)
    \/ \E w \in Workers : ThrottleExceeded(w)
    \/ \E w \in Workers : ThrottleIncr(w)
    \/ \E w \in Workers : ThrottleAdmit(w)
    \/ \E k \in IsolationKeys : ThrottleExpire(k)

SpecIsolation == InitIsolation /\ [][NextIsolation]_vars

(* ---------------------- throttle with a failing store ------------------ *)

\* is_rate_limited: redis get raises, or redis_client is None; the except
\* clause returns False and the wrapper executes the handler
ThrottleGetFails(w, key) ==
    /\ rlCalls < MaxRouteCalls
    /\ FreeWorker(w)
    /\ rlCalls' = rlCalls + 1
    /\ rlKey' = [rlKey EXCEPT ![w] = key]
    /\ rlCur' = [rlCur EXCEPT ![w] = Nil]
    /\ rlFault' = [rlFault EXCEPT ![w] = TRUE]
    /\ rlRet' = [rlRet EXCEPT ![w] = FALSE]
    /\ handlerRuns' = [handlerRuns EXCEPT ![w] = 1]
    /\ response' = [response EXCEPT ![w] = HandledBare]
    /\ UNCHANGED <<counter, ttlSet, admitted, rlPc, rlRemaining, ttl, rlReset>>
    /\ UNCHANGED <<wfVars, qVars, cacheVars>>

\* faulty variant: a redis error makes is_rate_limited return True
ThrottleFails_Closed(w) ==
    /\ rlPc[w] \in {"setex", "exceeded", "incr", "ttl"}
    /\ rlFault' = [rlFault EXCEPT ![w] = TRUE]
    /\ rlRet' = [rlRet EXCEPT ![w] = TRUE]
    /\ rlPc' = [rlPc EXCEPT ![w] = "idle"]
    /\ response' = [response EXCEPT ![w] = [HandledBare EXCEPT !.status = 500]]
    /\ UNCHANGED <<counter, ttlSet, admitted, rlCalls, rlKey, rlCur,
                   rlRemaining, ttl, rlReset, handlerRuns>>
    /\ UNCHANGED <<wfVars, qVars, cacheVars>>

\* is_rate_limited: the redis call that is due (setex, ttl of the limited
\* branch, incr, ttl after incr) raises; the except clause returns False
\* and the wrapper executes the handler
ThrottleFails(w) ==
    /\ rlPc[w] \in {"setex", "exceeded", "incr", "ttl"}
    /\ rlFault' = [rlFault EXCEPT ![w] = TRUE]
    /\ rlRet' = [rlRet EXCEPT ![w] = FALSE]
    /\ rlPc' = [rlPc EXCEPT ![w] = "idle"]
    /\ handlerRuns' = [handlerRuns EXCEPT ![w] = @ + 1]
    /\ response' = [response EXCEPT ![w] = HandledBare]
    /\ UNCHANGED <<counter, ttlSet, admitted, rlCalls, rlKey, rlCur,
                   rlRemaining, ttl, rlReset>>
    /\ UNCHANGED <<wfVars, qVars, cacheVars>>

NextRouteFaults ==
    \/ \E w \in Workers, k \in RouteKeys : RouteGet(w, k)
    \/ \E w \in Workers, k \in RouteKeys : ThrottleGetFails(w, k)
    \/ \E w \in Workers : ThrottleSetEx(w)
    \/ \E w \in Workers : ThrottleExceeded(w)
    \/ \E w \in Workers : ThrottleIncr(w)
    \/ \E w \in Workers : ThrottleAdmit(w)
    \/ \E w \in Workers : ThrottleFails(w)
    \/ \E k \in RouteKeys : ThrottleExpire(k)

SpecRouteFaults == InitRoutes /\ [][NextRouteFaults]_vars

(* --------------------------- reviewer queue ---------------------------- *)

\* create_approval_workflow with a uuid4 that is already the id of a stored
\* workflow: create_item raises on the existing id, the exception is re-raised
CreateWorkflowDuplicate(w, request_id, tenant_id) ==
    /\ store[w] # NoDoc
    /\ createResult' = "error"
    /\ UNCHANGED <<store, published, pubCalls, events, clock, writes,
                   lastDecision, calls, pc, args, snap, readVer, wf,
                   didPublish, result>>
    /\ UNCHANGED <<rlVars, qVars, cacheVars>>

\* get_pending_approvals: one query of the workflow container
GetPendingApprovals(approver_role, tenant_id) ==
    /\ pendingQuery' = [approver_role |-> approver_role, tenant_id |-> tenant_id]
    /\ pendingResult' = get_pending_approvals(approver_role, tenant_id)
    /\ UNCHANGED <<wfVars, rlVars, cacheVars>>

NextPending ==
    \/ \E w \in PendingWorkflowIds, r \in RequestIds, t \in PendingTenantIds :
          CreateWorkflow(w, r, t)
    \/ \E w \in PendingWorkflowIds, r \in RequestIds, t \in PendingTenantIds :
          CreateWorkflowDuplicate(w, r, t)
    \/ \E w \in PendingWorkflowIds, d \in Decisions :
          SubmitRead(1, w, "u1", "QC Supervisor", d, "")
    \/ SubmitPublish(1)
    \/ SubmitReplace(1)
    \/ \E ro \in PendingRoles, t \in PendingTenantIds :
          GetPendingApprovals(ro, t)

SpecPending == InitPending /\ [][NextPending]_vars

(* --------------------------- response cache ---------------------------- *)

\* faulty variant: the stored text is written after a flush of the keyspace
CacheSet_Flushes(i, llm_response) ==
    /\ cacheOps < MaxCacheOps
    /\ cacheOps' = cacheOps + 1
    /\ LET cache_key == get_cache_key(i)
           cache_data == [response |-> llm_response, cached_at |-> cacheOps',
                          product_name |-> i.product_name, doc_type |-> i.doc_type]
           entry == [value |-> Dumps(cache_data), ttl |-> CacheTtl]
       IN /\ cache' = [k \in {cache_key} |-> entry]
          /\ cacheLog' = [k \in {cache_key} |-> llm_response]
          /\ cacheBy' = [k \in {cache_key} |-> i]
    /\ cacheFault' = FALSE
    /\ UNCHANGED <<cacheAsked, cacheRet, cacheRaised, cacheStats, clearRun>>
    /\ UNCHANGED <<wfVars, rlVars, qVars>>

\* cache_response: setex of the serialized entry with the 24 hour TTL
CacheSet(i, llm_response) ==
    /\ cacheOps < MaxCacheOps
    /\ cacheOps' = cacheOps + 1
    /\ LET cache_key == get_cache_key(i)
           cache_data == [response |-> llm_response, cached_at |-> cacheOps',
                          product_name |-> i.product_name, doc_type |-> i.doc_type]
           entry == [value |-> Dumps(cache_data), ttl |-> CacheTtl]
       IN /\ cache' = [k \in DOMAIN cache \cup {cache_key} |->
                         IF k = cache_key THEN entry ELSE cache[k]]
          /\ cacheLog' = [k \in DOMAIN cacheLog \cup {cache_key} |->
                            IF k = cache_key THEN llm_response ELSE cacheLog[k]]
          /\ cacheBy' = [k \in DOMAIN cacheBy \cup {cache_key} |->
                            IF k = cache_key THEN i ELSE cacheBy[k]]
    /\ cacheFault' = FALSE
    /\ UNCHANGED <<cacheAsked, cacheRet, cacheRaised, cacheStats, clearRun>>
    /\ UNCHANGED <<wfVars, rlVars, qVars>>

\* get_cached_response called with inputs i
CacheGet(i) ==
    /\ cacheAsked' = i
    /\ cacheRet' = get_cached_response(i)
    /\ cacheFault' = FALSE
    /\ UNCHANGED <<cache, cacheLog, cacheBy, cacheOps, cacheRaised, cacheStats, clearRun>>
    /\ UNCHANGED <<wfVars, rlVars, qVars>>

\* the TTL of an entry elapses and redis drops the key
CacheExpire(k) ==
    /\ k \in DOMAIN cache
    /\ cache' = [j \in DOMAIN cache \ {k} |-> cache[j]]
    /\ cacheLog' = [j \in DOMAIN cacheLog \ {k} |-> cacheLog[j]]
    /\ cacheBy' = [j \in DOMAIN cacheBy \ {k} |-> cacheBy[j]]
    /\ UNCHANGED <<cacheAsked, cacheRet, cacheOps, cacheFault, cacheRaised, cacheStats, clearRun>>
    /\ UNCHANGED <<wfVars, rlVars, qVars>>

\* clear_cache: redis keys(pattern); with no key found the call is over
CacheClearKeys(pattern) ==
    /\ clearRun.pc = "idle"
    /\ RedisKeys(pattern) # {}
    /\ clearRun' = [pc |-> "delete", keys |-> RedisKeys(pattern), cleared |-> 0]
    /\ UNCHANGED <<cache, cacheLog, cacheBy, cacheAsked, cacheRet, cacheOps, cacheFault, cacheRaised, cacheStats>>
    /\ UNCHANGED <<wfVars, rlVars, qVars>>

\* clear_cache: redis delete(*keys) of the keys found
CacheClearDelete ==
    /\ clearRun.pc = "delete"
    /\ cache' = [j \in DOMAIN cache \ clearRun.keys |-> cache[j]]
    /\ cacheLog' = [j \in DOMAIN cacheLog \ clearRun.keys |-> cacheLog[j]]
    /\ cacheBy' = [j \in DOMAIN cacheBy \ clearRun.keys |-> cacheBy[j]]
    /\ counter' = [t \in ThrottleKeys |-> IF redis_key(t) \in clearRun.keys THEN Nil ELSE counter[t]]
    /\ ttl' = [t \in ThrottleKeys |-> IF redis_key(t) \in clearRun.keys THEN -2 ELSE ttl[t]]
    /\ ttlSet' = [t \in ThrottleKeys |-> IF redis_key(t) \in clearRun.keys THEN FALSE ELSE ttlSet[t]]
    /\ admitted' = [t \in ThrottleKeys |-> IF redis_key(t) \in clearRun.keys THEN 0 ELSE admitted[t]]
    /\ clearRun' = [pc |-> "idle", keys |-> {}, cleared |-> Cardinality(clearRun.keys)]
    /\ UNCHANGED <<cacheAsked, cacheRet, cacheOps, cacheFault, cacheRaised, cacheStats>>
    /\ UNCHANGED <<rlCalls, rlPc, rlKey, rlCur, rlRet, rlRemaining, rlReset,
                   handlerRuns, response, rlFault>>
    /\ UNCHANGED <<wfVars, qVars>>

\* get_cache_stats: redis keys of the namespace, memory_usage and info
CacheStats ==
    /\ cacheStats' = Cardinality(RedisKeys(CachePrefix))
    /\ UNCHANGED <<cache, cacheLog, cacheBy, cacheAsked, cacheRet, cacheOps, cacheFault, cacheRaised, clearRun>>
    /\ UNCHANGED <<wfVars, rlVars, qVars>>

NextCache ==
    \/ \E i \in CacheInputs, v \in Payloads : CacheSet(i, v)
    \/ \E i \in CacheInputs : CacheGet(i)
    \/ \E k \in DOMAIN cache : CacheExpire(k)
    \/ CacheClearKeys(CachePrefix)
    \/ CacheClearDelete

SpecCache == Init /\ [][NextCache]_vars

(* ------------------ response cache with a failing store --------------- *)

\* faulty variant: the exception of setex leaves cache_response
CacheSetFails_Raises(i, llm_response) ==
    /\ cacheOps < MaxCacheOps
    /\ cacheOps' = cacheOps + 1
    /\ cacheFault' = TRUE
    /\ cacheRaised' = TRUE
    /\ UNCHANGED <<cache, cacheLog, cacheBy, cacheAsked, cacheRet, cacheStats, clearRun>>
    /\ UNCHANGED <<wfVars, rlVars, qVars>>

\* cache_response: setex raises, the except clause prints and the call
\* returns
CacheSetFails(i, llm_response) ==
    /\ cacheOps < MaxCacheOps
    /\ cacheOps' = cacheOps + 1
    /\ cacheFault' = TRUE
    /\ UNCHANGED <<cache, cacheLog, cacheBy, cacheAsked, cacheRet, cacheRaised, cacheStats, clearRun>>
    /\ UNCHANGED <<wfVars, rlVars, qVars>>

\* get_cached_response: redis get raises, the except clause returns None
CacheGetFails(i) ==
    /\ cacheAsked' = i
    /\ cacheRet' = None
    /\ cacheFault' = TRUE
    /\ UNCHANGED <<cache, cacheLog, cacheBy, cacheOps, cacheRaised, cacheStats, clearRun>>
    /\ UNCHANGED <<wfVars, rlVars, qVars>>

NextCacheFaults ==
    \/ \E i \in SharedInputs, v \in Payloads : CacheSet(i, v)
    \/ \E i \in SharedInputs : CacheGet(i)
    \/ \E k \in DOMAIN cache : CacheExpire(k)
    \/ \E i \in SharedInputs, v \in Payloads : CacheSetFails(i, v)
    \/ \E i \in SharedInputs : CacheGetFails(i)

SpecCacheFaults == Init /\ [][NextCacheFaults]_vars

(* ------------- response cache and throttle in one keyspace ------------- *)

\* a request arrives at the throttle while the response cache is in use
ThrottleGetShared(w, key) ==
    /\ rlCalls < MaxSharedCalls
    /\ ThrottleGetAlone(w, key)

NextShared ==
    \/ \E i \in SharedInputs, v \in Payloads : CacheSet(i, v)
    \/ \E i \in SharedInputs : CacheGet(i)
    \/ CacheStats
    \/ \E k \in DOMAIN cache : CacheExpire(k)
    \/ CacheClearKeys(CachePrefix)
    \/ CacheClearDelete
    \/ \E w \in Workers, k \in ThrottleKeys : ThrottleGetShared(w, k)
    \/ \E w \in Workers : ThrottleSetEx(w)
    \/ \E w \in Workers : ThrottleIncr(w)
    \/ \E w \in Workers : ThrottleAdmit(w)
    \/ \E k \in ThrottleKeys : ThrottleExpire(k)

SpecShared == Init /\ [][NextShared]_vars

(* ------------------------------ claims --------------------------------- *)

\* request c returns from replace_item in this step
Returns(c) == pc[c] = "replace" /\ pc'[c] = "idle"

Terminal(status) == status \in {APPROVED, REJECTED}

\* position of current_stage in the chain of a document, 0 when it is no stage
Position(doc) ==
    IF \E i \in 1..Len(doc.approval_chain) :
          doc.approval_chain[i].stage = doc.current_stage
    THEN CHOOSE i \in 1..Len(doc.approval_chain) :
          doc.approval_chain[i].stage = doc.current_stage
    ELSE 0

\* positions after the current stage that hold a required stage
LaterRequired(doc) ==
    {i \in 1..Len(doc.approval_chain) :
        i > Position(doc) /\ doc.approval_chain[i].required}

PendingRecords(doc) ==
    {i \in 1..Len(doc.approval_chain) : doc.approval_chain[i].status = PENDING}

\* C1: of two submit_approval requests on one workflow that both loaded the
\* record before either wrote and carry different decisions, the one that
\* writes second fails and leaves the stored record of the first untouched.
C1_ConflictOnConcurrentSubmit ==
    [][\A c \in Procs :
          (/\ Returns(c)
           /\ writes[args[c].workflow_id] = readVer[c] + 1
           /\ lastDecision[args[c].workflow_id] # args[c].decision)
          => (/\ result'[c] = "error"
              /\ store'[args[c].workflow_id] = store[args[c].workflow_id])]_vars

\* C2: within one window the throttle admits at most max_requests requests
\* of one (client, endpoint) pair, whatever the interleaving of the callers.
C2_AtMostMaxAdmitted ==
    \A k \in ThrottleKeys : admitted[k] <= max_requests(k)

\* C3: publish_template runs at most once per request id, and no request
\* that read an approved or rejected workflow goes on to process it.
C3_PublishExactlyOnce ==
    /\ \A r \in RequestIds : pubCalls[r] <= 1
    /\ \A c \in Procs : pc[c] # "idle" => ~Terminal(snap[c].status)

\* C4 (as claimed): a stored pending workflow has exactly one pending stage
\* record, the one of current_stage.
C4_ExactlyOnePendingRecord ==
    \A w \in WorkflowIds :
        store[w].status = PENDING =>
            /\ Cardinality(PendingRecords(store[w])) = 1
            /\ \A i \in PendingRecords(store[w]) :
                  store[w].approval_chain[i].stage = store[w].current_stage

\* C4 (amended): in a stored pending workflow the record of current_stage is
\* pending and is the first pending record of the chain: every earlier record
\* is approved, every later record is still pending.
C4_CurrentStageIsFirstPending ==
    \A w \in WorkflowIds :
        store[w].status = PENDING =>
            /\ Position(store[w]) > 0
            /\ \A i \in 1..Len(store[w].approval_chain) :
                  store[w].approval_chain[i].status =
                     IF i < Position(store[w]) THEN APPROVED ELSE PENDING

C4_Witness ==
    \E w \in WorkflowIds :
        /\ store[w].status = PENDING
        /\ store[w].current_stage = MANAGER_APPROVAL
        /\ writes[w] > 0

\* C5: the stored status of a workflow never changes once it is approved or
\* rejected.
C5_StatusTerminal ==
    [][\A w \in WorkflowIds :
          Terminal(store[w].status) => store'[w].status = store[w].status]_vars

\* C6: once the stored status is approved or rejected, no later request
\* changes current_stage, the stage records, rejected_by, rejection_reason
\* or updated_at of the stored record.
C6_TerminalNeverMutated ==
    [][\A w \in WorkflowIds :
          Terminal(store[w].status) =>
             /\ store'[w].current_stage = store[w].current_stage
             /\ store'[w].approval_chain = store[w].approval_chain
             /\ store'[w].rejected_by = store[w].rejected_by
             /\ store'[w].rejection_reason = store[w].rejection_reason
             /\ store'[w].updated_at = store[w].updated_at]_vars

\* C7: no workflow is both published (a published record of its request id
\* exists) and stored as rejected.
C7_NotPublishedAndRejected ==
    \A w \in WorkflowIds :
        ~(store[w].status = REJECTED /\ store[w].request_id \in published)

\* C8: a request that approves a pending workflow whose current stage has no
\* later required stage stores status approved and current_stage published
\* and has invoked publish_template; in the created chain MANAGER_APPROVAL is
\* such a stage and QC_REVIEW is not.
C8_LastRequiredApprovalPublishes ==
    [][\A c \in Procs :
          (/\ Returns(c)
           /\ args[c].decision = APPROVED
           /\ snap[c].status = PENDING)
          => /\ (LaterRequired(snap[c]) = {} =>
                   /\ store'[args[c].workflow_id].status = APPROVED
                   /\ store'[args[c].workflow_id].current_stage = PUBLISHED
                   /\ didPublish[c]
                   /\ snap[c].request_id \in published')
             /\ (snap[c].current_stage = MANAGER_APPROVAL
                    => LaterRequired(snap[c]) = {})
             /\ (snap[c].current_stage = QC_REVIEW
                    => LaterRequired(snap[c]) # {} /\ ~didPublish[c])]_vars

C8_Witness ==
    \E w \in WorkflowIds :
        /\ store[w].status = APPROVED
        /\ store[w].current_stage = PUBLISHED
        /\ store[w].approval_chain[2].status = APPROVED
        /\ store[w].approval_chain[3].status = PENDING
        /\ store[w].request_id \in published
        /\ pubCalls[store[w].request_id] = 1

\* C9: a request with decision rejected stores status rejected whatever the
\* current stage is, and never invokes publish_template.
C9_RejectStoresRejected ==
    [][\A c \in Procs :
          /\ (args'[c].decision = REJECTED => pc'[c] # "publish")
          /\ (Returns(c) /\ args[c].decision = REJECTED
                => /\ store'[args[c].workflow_id].status = REJECTED
                   /\ ~didPublish[c]
                   /\ published' = published
                   /\ pubCalls' = pubCalls)]_vars

C9_Witness ==
    \E w \in WorkflowIds :
        /\ store[w].status = REJECTED
        /\ store[w].current_stage = MANAGER_APPROVAL
        /\ store[w].approval_chain[2].status = REJECTED
        /\ store[w].rejected_by \in ApproverIds
        /\ published = {}

\* C10: after an approval the stored current_stage is the first required
\* stage after the position of the stage that was current; a stage that is
\* not required is never chosen; approving QC_REVIEW of a pending workflow
\* gives MANAGER_APPROVAL and leaves the status pending.
C10_NextStageIsFirstLaterRequired ==
    [][\A c \in Procs :
          (Returns(c) /\ args[c].decision = APPROVED /\ Position(snap[c]) > 0)
          => LET w == args[c].workflow_id
                 later == LaterRequired(snap[c])
             IN /\ (later # {} =>
                      \E i \in later :
                         /\ \A j \in later : i <= j
                         /\ store'[w].current_stage =
                               snap[c].approval_chain[i].stage)
                /\ \A i \in 1..Len(snap[c].approval_chain) :
                      store'[w].current_stage = snap[c].approval_chain[i].stage
                      => /\ snap[c].approval_chain[i].required
                         /\ i > Position(snap[c])
                /\ (snap[c].current_stage = QC_REVIEW
                    /\ snap[c].status = PENDING
                      => /\ store'[w].current_stage = MANAGER_APPROVAL
                         /\ store'[w].status = PENDING)]_vars

C10_Witness ==
    \E w \in WorkflowIds :
        /\ store[w].status = PENDING
        /\ store[w].current_stage = MANAGER_APPROVAL
        /\ store[w].approval_chain[1].status = APPROVED
        /\ store[w].approval_chain[1].approver_id \in ApproverIds
        /\ store[w].approval_chain[3].status = PENDING

\* C14: when the calls of one (client, endpoint) pair run one after the
\* other, a call is denied exactly when max_requests calls were admitted
\* since the window began, never more than max_requests are admitted, and a
\* denied call reports a reset at most window_seconds ahead.
C14_SequentialThrottle ==
    [][\A w \in Workers :
          /\ admitted'[rlKey'[w]] <= max_requests(rlKey'[w])
          /\ (rlPc[w] = "idle" /\ rlPc'[w] # "idle"
                => (rlPc'[w] = "exceeded"
                      <=> admitted[rlKey'[w]] = max_requests(rlKey'[w])))
          /\ (rlPc[w] # "idle" /\ rlPc'[w] = "idle"
                => /\ rlRet'[w] = (rlPc[w] = "exceeded")
                   /\ rlRet'[w] =>
                         /\ rlReset'[w] >= 1
                         /\ rlReset'[w] <= window_seconds(rlKey[w]))]_vars

C14_Witness ==
    \E w \in Workers :
        /\ rlPc[w] = "idle"
        /\ rlRet[w]
        /\ rlCalls = max_requests(rlKey[w]) + 1
        /\ admitted[rlKey[w]] = max_requests(rlKey[w])
        /\ rlReset[w] < window_seconds(rlKey[w])

\* C15: every throttle counter that exists carries an expiry.
C15_CounterHasExpiry ==
    \A k \in ThrottleKeys : counter[k] # Nil => ttlSet[k] /\ ttl[k] >= 0

StageIds(approval_chain) ==
    [i \in 1..Len(approval_chain) |-> approval_chain[i].stage]

\* C11: the approval chain of a stored workflow keeps its length and the
\* order of its stage identifiers: they are those of the chain built at
\* creation, and no step changes them.
C11_ChainShapeImmutable ==
    [][\A w \in WorkflowIds :
          /\ store'[w] # NoDoc =>
                StageIds(store'[w].approval_chain) = StageIds(NewChain)
          /\ store[w] # NoDoc =>
                /\ store'[w] # NoDoc
                /\ Len(store'[w].approval_chain) = Len(store[w].approval_chain)
                /\ StageIds(store'[w].approval_chain) =
                      StageIds(store[w].approval_chain)]_vars

C11_Witness ==
    \E w \in WorkflowIds :
        /\ writes[w] >= 2
        /\ store[w].approval_chain[1].status = APPROVED
        /\ store[w].approval_chain[2].status # PENDING
        /\ StageIds(store[w].approval_chain) =
              <<QC_REVIEW, MANAGER_APPROVAL, FINAL_APPROVAL>>

\* C16: submit_approval on a workflow id that the store does not hold ends
\* with an error, leaves both containers as they were and emits no event.
C16_NotFoundWritesNothing ==
    [][/\ (calls' = calls + 1 /\ \A w \in WorkflowIds : store[w] = NoDoc)
            => pc' = pc
       /\ (calls' = calls + 1 /\ pc' = pc)
            => /\ \E c \in Procs : FreeSlot(c) /\ result'[c] = "error"
               /\ store' = store
               /\ published' = published
               /\ pubCalls' = pubCalls
               /\ events' = events]_vars

C16_Witness ==
    /\ calls > 0
    /\ \E c \in Procs : result[c] = "error"
    /\ \A w \in WorkflowIds : store[w] = NoDoc
    /\ events = {}
    /\ published = {}

\* C17: a rejection stores rejected_by = the approver id and
\* rejection_reason = the comments of the call, writes the approver id,
\* status rejected and the comments on the record of the current stage, and
\* creates no published record.
C17_RejectionRecorded ==
    [][\A c \in Procs :
          (Returns(c) /\ args[c].decision = REJECTED)
          => LET new == store'[args[c].workflow_id]
                 p == Position(snap[c])
             IN /\ new.rejected_by = args[c].approver_id
                /\ new.rejection_reason = args[c].comments
                /\ p > 0 =>
                      /\ new.approval_chain[p].approver_id = args[c].approver_id
                      /\ new.approval_chain[p].status = REJECTED
                      /\ new.approval_chain[p].comments = args[c].comments
                /\ published' = published]_vars

C17_Witness ==
    \E w \in WorkflowIds :
        /\ store[w].status = REJECTED
        /\ store[w].current_stage = MANAGER_APPROVAL
        /\ store[w].rejected_by = "u2"
        /\ store[w].rejection_reason = "missing spec"
        /\ store[w].approval_chain[2].approver_id = "u2"
        /\ store[w].approval_chain[2].comments = "missing spec"
        /\ store[w].approval_chain[2].status = REJECTED
        /\ store[w].request_id \notin published

\* C12: submit_approval fails closed. A request that reaches its final
\* replace_item reports success exactly when that write was applied: on a
\* failed write the caller gets an error and the stored record is untouched,
\* and on success the stored record is the decided workflow the request
\* built, with the decision in the record of the stage that was current.
C12_FailsClosed ==
    [][\A c \in Procs :
          Returns(c) =>
            LET w == args[c].workflow_id
            IN /\ result'[c] \in {"ok", "error"}
               /\ (result'[c] = "ok") <=>
                    (writes'[w] = writes[w] + 1 /\ store'[w] = wf[c])
               /\ (result'[c] = "error") <=>
                    (writes' = writes /\ store' = store)
               /\ (result'[c] = "ok" /\ Position(snap[c]) > 0) =>
                    LET rec == store'[w].approval_chain[Position(snap[c])]
                    IN /\ rec.status = args[c].decision
                       /\ rec.approver_id = args[c].approver_id]_vars

\* a single request read the workflow, failed in replace_item and returned an
\* error while the stored record kept every stage pending
C12_Witness ==
    \E c \in Procs, w \in WorkflowIds :
        /\ result[c] = "error"
        /\ pc[c] = "idle"
        /\ calls = 1
        /\ store[w] # NoDoc
        /\ writes[w] = 0
        /\ clock = 2
        /\ \A i \in 1..Len(store[w].approval_chain) :
              store[w].approval_chain[i].status = PENDING

\* C18: a lifecycle event is emitted only in the step that committed the
\* record it reports: WorkflowStarted with the creation of the workflow
\* record, ApprovalSubmitted with the replacement of the record at the stage
\* the event carries; a step whose persist call fails emits nothing.
C18_EventsAfterCommit ==
    [][/\ \A e \in events' \ events :
            /\ e.event_type = "WorkflowStarted" =>
                 /\ store[e.workflow_id] = NoDoc
                 /\ store'[e.workflow_id] # NoDoc
                 /\ createResult' = "ok"
            /\ e.event_type = "ApprovalSubmitted" =>
                 /\ writes'[e.workflow_id] = writes[e.workflow_id] + 1
                 /\ store'[e.workflow_id].current_stage = e.stage
            /\ e.event_type \in {"WorkflowStarted", "ApprovalSubmitted"}
       /\ (writes' = writes /\ \A w \in WorkflowIds : store[w] = NoDoc => store'[w] = NoDoc)
             => (events' = events)
       /\ (\E c \in Procs : Returns(c) /\ result'[c] = "error")
             => (events' = events)]_vars

\* a create_item failure and a replace_item failure both happened, the
\* workflow exists and the only event is the one of its creation
C18_Witness ==
    \E c \in Procs, w \in WorkflowIds :
        /\ result[c] = "error"
        /\ calls = 1
        /\ clock = 2
        /\ writes[w] = 0
        /\ store[w] # NoDoc
        /\ Cardinality(events) = 1
        /\ \A e \in events : e.event_type = "WorkflowStarted"

\* C19: a failed event publication leaves the outcome as it is with a
\* successful one: whenever create_item or replace_item succeeded the call
\* returns its normal result and the stored record is the record built by
\* the call, whether or not the step emitted an event.
C19_EventFailureHarmless ==
    [][/\ \A c \in Procs :
            (Returns(c) /\ writes' # writes) =>
               /\ result'[c] = "ok"
               /\ store'[args[c].workflow_id] = wf[c]
       /\ \A w \in WorkflowIds :
            (store[w] = NoDoc /\ store'[w] # NoDoc) =>
               /\ createResult' = "ok"
               /\ \E r \in RequestIds, t \in TenantIds :
                     store'[w] = NewWorkflow(r, t, clock')]_vars

\* the workflow was created and decided at its first stage, both calls
\* returned normally, and no event was ever published
C19_Witness ==
    \E c \in Procs, w \in WorkflowIds :
        /\ events = {}
        /\ createResult = "ok"
        /\ result[c] = "ok"
        /\ writes[w] = 1
        /\ store[w].approval_chain[1].status \in {APPROVED, REJECTED}

\* C13: round trip of the response cache. A get_cached_response returns
\* exactly the payload of the latest cache_response with identical inputs,
\* the empty payload included, while the entry was neither expired nor
\* cleared; it returns a miss when the entry expired, was cleared or was
\* never set.
C13_CacheRoundTrip ==
    [][(<<cacheAsked, cacheRet>>' # <<cacheAsked, cacheRet>>) =>
          LET k == get_cache_key(cacheAsked')
          IN /\ cache' = cache
             /\ IF k \in DOMAIN cacheLog
                THEN cacheRet' = cacheLog[k]
                ELSE cacheRet' = None]_vars

\* an empty payload was set and then returned by a get with the same inputs
C13_Witness ==
    /\ cacheAsked # NoInputs
    /\ get_cache_key(cacheAsked) \in DOMAIN cacheLog
    /\ cacheLog[get_cache_key(cacheAsked)] = ""
    /\ cacheRet = ""

C21_CreateStoresNewWorkflow ==
    [][(clock' = clock + 1 /\ calls' = calls) =>
          \E w \in PendingWorkflowIds :
              /\ store[w] = NoDoc
              /\ store'[w] # NoDoc
              /\ store'[w].status = PENDING
              /\ store'[w].current_stage = QC_REVIEW
              /\ store'[w].current_stage = store'[w].approval_chain[1].stage
              /\ StageIds(store'[w].approval_chain)
                    = <<QC_REVIEW, MANAGER_APPROVAL, FINAL_APPROVAL>>
              /\ [i \in 1..3 |-> store'[w].approval_chain[i].required]
                    = <<TRUE, TRUE, FALSE>>
              /\ \A i \in 1..3 : store'[w].approval_chain[i].status = PENDING
              /\ \A i \in 1..3 : store'[w].approval_chain[i].approver_id = None
              /\ createResult' = "ok"
              /\ \E e \in events' :
                    e.event_type = "WorkflowStarted" /\ e.workflow_id = w
              /\ \A v \in PendingWorkflowIds \ {w} : store'[v] = store[v]]_vars

\* two calls have created two workflows under two ids, both waiting at
\* qc_review
C21_Witness ==
    /\ \A w \in PendingWorkflowIds :
          /\ store[w] # NoDoc
          /\ store[w].status = PENDING
          /\ store[w].current_stage = QC_REVIEW
          /\ store[w].approval_chain = NewChain
    /\ store["w1"].created_at # store["w2"].created_at
    /\ createResult = "ok"

\* C22: clear_cache removes the response-cache entries of its namespace:
\* its keys call finds the key of every payload that is set, its delete
\* call leaves none of the keys found in the store, so that a get for the
\* inputs of any of them is a miss, and neither call touches a throttle
\* counter or its expiry.
C22_ClearRemovesNamespace ==
    [][/\ (clearRun.pc = "idle" /\ clearRun'.pc = "delete") =>
            /\ clearRun'.keys = DOMAIN cache
            /\ \A i \in CacheInputs :
                  get_cache_key(i) \in DOMAIN cacheLog =>
                      get_cache_key(i) \in clearRun'.keys
            /\ \A t \in ThrottleKeys : redis_key(t) \notin clearRun'.keys
            /\ UNCHANGED <<cache, counter, ttl>>
       /\ (clearRun.pc = "delete" /\ clearRun'.pc = "idle") =>
            /\ \A k \in clearRun.keys : k \notin DOMAIN cache'
            /\ \A i \in CacheInputs :
                  get_cache_key(i) \in clearRun.keys =>
                      get_cached_response(i)' = None
            /\ \A k \in DOMAIN cache \ clearRun.keys :
                  k \in DOMAIN cache' /\ cache'[k] = cache[k]
            /\ UNCHANGED <<counter, ttl>>]_vars

\* a clear_cache has removed two entries, and the throttle counter that
\* shares the store still counts two requests
C22_Witness ==
    /\ clearRun.pc = "idle"
    /\ clearRun.cleared = 2
    /\ cache = NoEntries
    /\ \E t \in ThrottleKeys : counter[t] = 2 /\ ttl[t] > 0

\* C23: an admitted is_rate_limited call reports remaining = max_requests
\* minus the value the counter of its key has right after the call's own
\* setex or incr, also while other calls for the same key are running.
C23_RemainingMatchesCounter ==
    [][\A w \in Workers :
          (rlPc[w] \in {"setex", "incr"} /\ rlPc'[w] # rlPc[w]) =>
              rlRemaining'[w] = max_requests(rlKey[w]) - counter'[rlKey[w]]]_vars

\* C24: the response cache fails open. No exception of a cache call reaches
\* the caller; a cache_response that met a redis error returns with nothing
\* stored and nothing removed, and a get_cached_response that met a redis
\* error returns a miss and leaves the store as it is.
C24_CacheFailsOpen ==
    [][/\ cacheRaised' = FALSE
       /\ (cacheFault' /\ cacheOps' # cacheOps) =>
             /\ cache' = cache
             /\ cacheLog' = cacheLog
             /\ UNCHANGED <<cacheAsked, cacheRet>>
       /\ (cacheFault' /\ cacheOps' = cacheOps /\ cache' = cache) =>
             \/ cacheRet' = None
             \/ UNCHANGED <<cacheAsked, cacheRet, cacheFault>>]_vars

\* an entry is stored, a get for its inputs met a redis error and returned
\* a miss
C24_Witness ==
    /\ cacheFault
    /\ cacheAsked # NoInputs
    /\ cacheRet = None
    /\ get_cache_key(cacheAsked) \in DOMAIN cache
    /\ cacheOps = 1

\* the orders in which the four members of cache_data can be listed
KeyOrders ==
    { <<1, 2, 3, 4>>, <<1, 2, 4, 3>>, <<1, 3, 2, 4>>, <<1, 3, 4, 2>>,
      <<1, 4, 2, 3>>, <<1, 4, 3, 2>>, <<2, 1, 3, 4>>, <<2, 1, 4, 3>>,
      <<2, 3, 1, 4>>, <<2, 3, 4, 1>>, <<2, 4, 1, 3>>, <<2, 4, 3, 1>>,
      <<3, 1, 2, 4>>, <<3, 1, 4, 2>>, <<3, 2, 1, 4>>, <<3, 2, 4, 1>>,
      <<3, 4, 1, 2>>, <<3, 4, 2, 1>>, <<4, 1, 2, 3>>, <<4, 1, 3, 2>>,
      <<4, 2, 1, 3>>, <<4, 2, 3, 1>>, <<4, 3, 1, 2>>, <<4, 3, 2, 1>> }

\* C25: a get_cached_response that hits returns the payload of the latest
\* cache_response made with inputs identical to its own. The key of a tuple
\* of inputs is the same in whatever order the four members are listed
\* before they are serialized, and two distinct tuples have distinct keys:
\* every entry is stored under the key of the inputs it was set with.
C25_KeySeparatesInputs ==
    [][/\ (<<cacheAsked, cacheRet>>' # <<cacheAsked, cacheRet>> /\ cacheRet' # None) =>
            LET k == get_cache_key(cacheAsked')
            IN /\ k \in DOMAIN cacheBy
               /\ cacheBy[k] = cacheAsked'
               /\ cacheRet' = cacheLog[k]
       /\ \A k \in DOMAIN cacheBy' : get_cache_key(cacheBy'[k]) = k
       /\ \A i \in DOMAIN cacheBy', j \in DOMAIN cacheBy' :
            cacheBy'[i] # cacheBy'[j] => i # j
       /\ (cacheAsked' # cacheAsked) =>
            \A data \in {KeyData(cacheAsked')}, key \in {get_cache_key(cacheAsked')} :
               \A f \in KeyOrders :
                  \A listed \in {[n \in 1..4 |-> data[f[n]]]} :
                     <<CachePrefix, Digest(DumpsSorted(listed))>> = key]_vars

\* entries are stored for two tuples that differ in supplier_name only, and
\* a get for one of them returned the payload set for it, which is not the
\* payload of the other
C25_Witness ==
    \E i \in CacheInputs, j \in CacheInputs :
        /\ i.user_message = j.user_message
        /\ i.supplier_name # j.supplier_name
        /\ get_cache_key(i) \in DOMAIN cacheLog
        /\ get_cache_key(j) \in DOMAIN cacheLog
        /\ cacheLog[get_cache_key(i)] # cacheLog[get_cache_key(j)]
        /\ cacheAsked = i
        /\ cacheRet = cacheLog[get_cache_key(i)]

\* C26: a cache entry is invalidated only by its expiry or by clear_cache.
\* An entry that is in the store keeps its text across every step, unless
\* the step is a cache_response for its own key, the delete of a clear_cache
\* that found its key, or the expiry of its key; a get_cached_response, a
\* cache_response for another key, a get_cache_stats and the steps of
\* is_rate_limited leave every entry as it is.
C26_OnlyExpiryOrClearInvalidates ==
    [][/\ \A k \in DOMAIN cache :
            (k \notin DOMAIN cache' \/ cache'[k] # cache[k]) =>
               \/ /\ cacheOps' = cacheOps + 1
                  /\ k \in DOMAIN cache'
                  /\ Loads(cache'[k].value).cached_at = cacheOps'
                  /\ get_cache_key(cacheBy'[k]) = k
               \/ /\ clearRun.pc = "delete"
                  /\ clearRun'.pc = "idle"
                  /\ k \in clearRun.keys
                  /\ k \notin DOMAIN cache'
               \/ /\ k \notin DOMAIN cache'
                  /\ \A j \in DOMAIN cache \ {k} :
                        j \in DOMAIN cache' /\ cache'[j] = cache[j]
                  /\ UNCHANGED <<cacheOps, clearRun, cacheAsked, cacheRet,
                                 cacheStats, rlVars>>
       /\ (<<cacheAsked, cacheRet, cacheStats, rlCalls, rlPc>>'
              # <<cacheAsked, cacheRet, cacheStats, rlCalls, rlPc>>)
             => cache' = cache]_vars

\* the entry of the first cache_response is still returned by a get after a
\* cache_response for another key, a get_cache_stats and two throttle calls
C26_Witness ==
    \E i \in SharedInputs, j \in SharedInputs :
        /\ i # j
        /\ get_cache_key(i) \in DOMAIN cache
        /\ get_cache_key(j) \in DOMAIN cache
        /\ Loads(cache[get_cache_key(i)].value).cached_at = 1
        /\ Loads(cache[get_cache_key(j)].value).cached_at = 2
        /\ cacheStats = 2
        /\ cacheAsked = i
        /\ cacheRet = "p1"
        /\ cacheLog[get_cache_key(i)] = "p1"
        /\ \E t \in ThrottleKeys : counter[t] = 2

\* C27: due dates are advisory. No stored workflow and no stage record ever
\* has status expired, the due date of a stage is never rewritten, a day
\* that passes changes no record, and the outcome of a decision is the one
\* it would have with due dates far in the future.
\* a due date that no clock of these behaviours reaches
FarDue == DayHours * (MaxDays + 1000)

WithDue(doc, h) ==
    [doc EXCEPT !.approval_chain =
        [i \in 1..Len(doc.approval_chain) |->
            [doc.approval_chain[i] EXCEPT !.due_hours = h]],
                !.updated_at = 0]

NotExpired(doc) ==
    \/ doc = NoDoc
    \/ /\ doc.status # EXPIRED
       /\ \A i \in 1..Len(doc.approval_chain) :
             doc.approval_chain[i].status # EXPIRED

C27_DueDateAdvisory ==
    [][/\ \A w \in WorkflowIds :
             /\ NotExpired(store'[w])
             /\ (store[w] # NoDoc /\ store'[w] # NoDoc) =>
                   \A i \in 1..Len(store[w].approval_chain) :
                       store'[w].approval_chain[i].due_hours
                           = store[w].approval_chain[i].due_hours
       /\ (calls' = calls /\ pc' = pc /\ store = store' /\ clock' # clock) =>
             (wf' = wf /\ events' = events /\ published' = published)
       /\ \A c \in Procs :
             (pc[c] = "idle" /\ pc'[c] # "idle") =>
                 \A far \in {ApplyDecision(
                                WithDue(store[args'[c].workflow_id], FarDue),
                                args'[c].approver_id, args'[c].decision,
                                args'[c].comments, clock')} :
                     /\ NotExpired(wf'[c])
                     /\ WithDue(wf'[c], FarDue) = WithDue(far.doc, FarDue)
                     /\ pc'[c] = IF far.publish THEN "publish" ELSE "replace"]_vars

\* a QC approval recorded more than a day after the stage was due moved the
\* workflow on to the manager stage
C27_Witness ==
    \E w \in WorkflowIds :
        /\ store[w] # NoDoc
        /\ store[w].status = PENDING
        /\ store[w].current_stage = MANAGER_APPROVAL
        /\ store[w].approval_chain[1].status = APPROVED
        /\ store[w].approval_chain[1].approved_at
              > store[w].created_at + store[w].approval_chain[1].due_hours

\* C28: a throttled request never reaches the handler. When is_rate_limited
\* returns True the wrapper answers 429 with retry_after equal to the reset
\* time minus now and the handler has not run; when it returns False the
\* handler has run exactly once for the request.
C28_ThrottledNeverHandled ==
    [][\A w \in Workers :
          /\ rlPc'[w] # "idle" => handlerRuns'[w] = 0
          /\ (rlPc[w] # "idle" /\ rlPc'[w] = "idle") =>
                IF rlRet'[w]
                THEN /\ response'[w].status = 429
                     /\ response'[w].retry_after = rlReset'[w]
                     /\ handlerRuns'[w] = 0
                ELSE /\ response'[w].status # 429
                     /\ handlerRuns'[w] = 1]_vars

\* a request that found the counter at the limit was answered 429 and its
\* handler did not run
C28_Witness ==
    \E w \in Workers :
        /\ rlPc[w] = "idle"
        /\ rlRet[w]
        /\ rlCur[w] >= max_requests(rlKey[w])
        /\ response[w].status = 429
        /\ response[w].retry_after > 0
        /\ handlerRuns[w] = 0

\* C29: the limit applied to a call is the entry of its endpoint in
\* default_limits when the endpoint is listed and the "default" entry when
\* it is not, and the call is limited exactly when the counter read for its
\* own key has reached that limit.
ListedEndpoints == {"/refine", "/edit", "/digitize", "/upload/async"}

ConfiguredLimit(endpoint) ==
    IF endpoint \in ListedEndpoints
    THEN default_limits(endpoint)
    ELSE default_limits("default")

C29_LimitOfOwnEndpoint ==
    [][\A w \in Workers :
          /\ (rlPc[w] = "idle" /\ rlPc'[w] # "idle") =>
                rlCur'[w] = counter[rlKey'[w]]
          /\ (rlPc[w] # "idle" /\ rlPc'[w] = "idle") =>
                \A limits \in {ConfiguredLimit(rlKey[w][2])} :
                    /\ response'[w].limit = limits.requests
                    /\ response'[w].window = limits.window
                    /\ rlRet'[w] = (rlCur[w] # Nil /\ rlCur[w] >= limits.requests)]_vars

\* a call of the listed endpoint was limited at its own limit and a call
\* of the unlisted endpoint was let through at a count above that limit
C29_Witness ==
    \E v, w \in Workers :
        /\ rlPc[v] = "idle" /\ rlPc[w] = "idle"
        /\ rlKey[v][2] = "/digitize" /\ response[v].status = 429
        /\ response[v].limit = 5 /\ rlCur[v] = 5
        /\ rlKey[w][2] = "/status" /\ response[w].status = 200
        /\ response[w].limit = 100 /\ rlCur[w] = 99

\* C30: the throttle fails open. A call of is_rate_limited in which a redis
\* operation raises returns False and its handler runs once, whatever the
\* counter holds.
C30_ThrottleFailsOpen ==
    [][\A w \in Workers :
          (rlFault'[w] /\ (rlPc[w] # "idle" \/ rlCalls' # rlCalls)) =>
              /\ rlPc'[w] = "idle"
              /\ rlRet'[w] = FALSE
              /\ response'[w].status = 200
              /\ handlerRuns'[w] = 1]_vars

\* a call that had read a counter at the limit met a redis error and its
\* handler ran
C30_Witness ==
    \E w \in Workers :
        /\ rlFault[w]
        /\ rlPc[w] = "idle"
        /\ rlCur[w] # Nil
        /\ rlCur[w] >= max_requests(rlKey[w])
        /\ counter[rlKey[w]] >= max_requests(rlKey[w])
        /\ handlerRuns[w] = 1
        /\ response[w].status = 200

\* C31: when no submit_approval is running, a published-template record of a
\* request id exists only if the stored workflow of that request id has
\* status approved.
C31_PublishedOnlyIfApproved ==
    (\A c \in Procs : pc[c] = "idle") =>
        \A w \in WorkflowIds :
            (store[w] # NoDoc /\ store[w].request_id \in published) =>
                store[w].status = APPROVED

\* C32: a workflow stored with status approved has a published-template
\* record of its request id.
C32_ApprovedHasPublishedRecord ==
    \A w \in WorkflowIds :
        (store[w] # NoDoc /\ store[w].status = APPROVED) =>
            store[w].request_id \in published

\* C33: the current stage of a stored workflow is a stage of its approval
\* chain or published, and it is published exactly when the status is
\* approved.
C33_PublishedIffApproved ==
    \A w \in WorkflowIds :
        store[w] # NoDoc =>
            /\ \/ store[w].current_stage = PUBLISHED
               \/ \E i \in 1..Len(store[w].approval_chain) :
                     store[w].approval_chain[i].stage = store[w].current_stage
            /\ (store[w].current_stage = PUBLISHED) = (store[w].status = APPROVED)

\* the place of the current stage in the order of the chain, published
\* coming after the last stage
StageRank(doc) ==
    IF doc.current_stage = PUBLISHED
    THEN Len(doc.approval_chain) + 1
    ELSE Position(doc)

\* C34: the stored current stage of a workflow never moves back to an
\* earlier place of the chain.
C34_StageNeverMovesBack ==
    [][\A w \in WorkflowIds :
          (store[w] # NoDoc /\ store'[w] # NoDoc) =>
              StageRank(store'[w]) >= StageRank(store[w])]_vars

\* C35: in a workflow stored with status approved every required stage
\* record has status approved and names its approver; the stage that is not
\* required need not be approved.
C35_ApprovedMeansRequiredApproved ==
    \A w \in WorkflowIds :
        (store[w] # NoDoc /\ store[w].status = APPROVED) =>
            \A i \in 1..Len(store[w].approval_chain) :
                store[w].approval_chain[i].required =>
                    /\ store[w].approval_chain[i].status = APPROVED
                    /\ store[w].approval_chain[i].approver_id \in ApproverIds

\* a workflow stored as approved after a rejection at QC_REVIEW was taken
\* back: both required records are approved, the optional one is pending
C35_Witness ==
    \E w \in WorkflowIds :
        /\ store[w] # NoDoc
        /\ store[w].status = APPROVED
        /\ store[w].rejected_by # None
        /\ store[w].approval_chain[1].status = APPROVED
        /\ store[w].approval_chain[2].status = APPROVED
        /\ store[w].approval_chain[3].status = PENDING
        /\ writes[w] >= 3

\* C36: throttle counters are isolated per (client, endpoint) key. A step
\* of a call reads and writes the counter of its own key only: every other
\* key has another redis key text and keeps its counter, the count read,
\* the remaining value, the outcome and the response of every other call
\* stay as they are, and the outcome of the call follows from the count
\* read for its own key.
C36_ThrottleKeysIsolated ==
    [][\A w \in Workers :
          rlPc'[w] # rlPc[w] =>
              /\ \A k \in DOMAIN counter \ {rlKey'[w]} :
                    redis_key_text(k) # redis_key_text(rlKey'[w])
              /\ \A k \in DOMAIN counter \ {rlKey'[w]} :
                    /\ counter'[k] = counter[k]
                    /\ ttl'[k] = ttl[k]
                    /\ ttlSet'[k] = ttlSet[k]
              /\ \A v \in Workers \ {w} :
                    /\ rlCur'[v] = rlCur[v]
                    /\ rlRemaining'[v] = rlRemaining[v]
                    /\ rlRet'[v] = rlRet[v]
                    /\ response'[v] = response[v]
              /\ rlPc[w] = "idle" => rlCur'[w] = counter[rlKey'[w]]
              /\ rlPc'[w] = "idle" =>
                    rlRet'[w] = (rlCur[w] # Nil
                                  /\ rlCur[w] >= max_requests(rlKey[w]))]_vars

\* a client is denied on /digitize at its limit while its own counter of
\* the other endpoint and the counter of the other client stand where the
\* window began
C36_Witness ==
    \E w \in Workers :
        /\ rlPc[w] = "idle"
        /\ rlKey[w] = <<"10.0.0.1:42", "/digitize">>
        /\ rlRet[w]
        /\ counter[<<"10.0.0.1:42", "/digitize">>] = 5
        /\ counter[<<"10.0.0.1:42", "/status">>] = 99
        /\ counter[<<"10.0.0.2:7", "/digitize">>] = 4

ChainRoles(doc) ==
    [i \in 1..Len(doc.approval_chain) |-> doc.approval_chain[i].approver_role]

C38_RoleNotCompared ==
    [][/\ (calls' # calls /\ \A w \in WorkflowIds : store[w] # NoDoc) =>
             \E c \in Procs : pc[c] = "idle" /\ pc'[c] # "idle"
       /\ \A c \in Procs :
             (pc[c] = "idle" /\ pc'[c] # "idle") =>
                 \A r \in {ApplyDecision(store[args'[c].workflow_id],
                                          args'[c].approver_id,
                                          args'[c].decision,
                                          args'[c].comments, clock')} :
                     /\ [wf'[c] EXCEPT !.updated_at = 0]
                           = [r.doc EXCEPT !.updated_at = 0]
                     /\ pc'[c] = IF r.publish THEN "publish" ELSE "replace"
       /\ \A c \in Procs :
             Returns(c) =>
                 /\ store'[args[c].workflow_id] = wf[c]
                 /\ ChainRoles(wf[c]) = ChainRoles(NewWorkflow(None, None, 0))
                 /\ WorkflowEvent("ApprovalSubmitted", args[c].workflow_id,
                                  wf[c].request_id, wf[c].current_stage,
                                  wf[c].tenant_id,
                                  [decision |-> args[c].decision,
                                   approver |-> args[c].approver_role])
                       \in events']_vars

\* QC_REVIEW, whose record asks for a QC Supervisor, was approved by a call
\* made under the role Department Head
C38_Witness ==
    \E w \in WorkflowIds :
        /\ store[w] # NoDoc
        /\ writes[w] = 1
        /\ store[w].current_stage = MANAGER_APPROVAL
        /\ store[w].approval_chain[1].approver_role = "QC Supervisor"
        /\ store[w].approval_chain[1].status = APPROVED
        /\ WorkflowEvent("ApprovalSubmitted", w, store[w].request_id,
                         MANAGER_APPROVAL, store[w].tenant_id,
                         [decision |-> APPROVED, approver |-> "Department Head"])
              \in events

====
